---- MODULE Spec2Model ----
(***************************************************************************)
(* A model of the osdemo bare-metal kernel: the interrupt handler registry *)
(* and IRQ dispatch (src/src/interrupts.rs), and the secondary-core        *)
(* bring-up protocol (src/src/secondary_entry.rs, src/src/apps/cpus.rs,    *)
(* src/src/main.rs).                                                       *)
(*                                                                         *)
(* Specifications:                                                         *)
(*   Spec         the handler registry and handle_irq, one thread of       *)
(*                control per core plus the IRQ exception level, at the    *)
(*                granularity of lock / borrow acquisitions.               *)
(*   SpecBringup  secondary-core bring-up: the stack map, the stores to    *)
(*                the top-of-stack slots, the store barrier, the PSCI      *)
(*                calls and the started cores.                             *)
(*   SpecDispatch the dispatcher with the kernel's own handlers            *)
(*                registered: acknowledge, handler, end of interrupt.      *)
(*                The other exception vectors (src/src/exceptions.rs) can  *)
(*                be entered at any point.                                 *)
(*   SpecPagetable  the identity-mapped page table (src/src/pagetable.rs): *)
(*                map_range calls on a new IdMap and its activation.       *)
(*   SpecBoot     main's boot sequence (src/src/main.rs): the regions of   *)
(*                the device tree are mapped, the page table is activated  *)
(*                and published, the GIC is initialised; secondary cores   *)
(*                install the table and initialise their GIC interface at  *)
(*                any point.                                               *)
(*   SpecCpus     core indexes (src/src/cpus.rs): current_cpu_index calls  *)
(*                of the cores against the cpu nodes of the device tree.   *)
(*   SpecShell    bring-up with the start_cpu command of the shell as the  *)
(*                only way to start a core (src/src/apps/cpus.rs).         *)
(*   SpecNest     the dispatcher with interrupts already pending when a    *)
(*                core unmasks IRQs.                                       *)
(*   SpecSecondary  a secondary core from irq_enable to cpu_off            *)
(*                (secondary_entry of src/src/apps/cpus.rs) while SGIs     *)
(*                are sent to it.                                          *)
(*   SpecGicIndex SpecBoot on device trees that list the cores in any      *)
(*                order.                                                   *)
(*   SpecLogger   the dispatcher while the threads of the cores write log  *)
(*                records (src/src/logger.rs).                             *)
(*   SpecConsole  Console::read on the shell's core and the UART's receive *)
(*                interrupt (src/src/console.rs,                           *)
(*                src/src/drivers/uart8250.rs), with weak fairness of      *)
(*                each core's steps.                                       *)
(*   SpecPci      the ranges of the PCI root and their mapping             *)
(*                (src/src/pci.rs).                                        *)
(***************************************************************************)
EXTENDS Integers, Sequences, FiniteSets, TLC

(***************************************************************************)
(* Bounds and input sets.                                                  *)
(***************************************************************************)
\* Total number of registry calls (set_* / remove_*) made by all cores.
MaxCalls == 2
\* Total number of interrupts the GIC makes pending.
MaxIrqs == 1

\* Total number of start_core_with_stack calls made by all cores.
MaxStarts == 2

\* Logical core indexes (cpus::current_cpu_index).
Cores == {0, 1}
\* Interrupt ids the callers use: one SGI/PPI-range id and one SPI-range id.
IntIds == {5, 33}
\* The callbacks a caller can register.
Handlers == {"h1", "h2"}
\* Option::None.
None == "none"
\* The SpinMutex is free.
NoCore == -1

VARIABLES
    SHARED_IRQ_HANDLERS,  \* BTreeMap<IntId, IrqHandler>: [IntIds -> Handlers \cup {None}]
    PRIVATE_IRQ_HANDLERS, \* per core BTreeMap: [Cores -> [IntIds -> Handlers \cup {None}]]
    sharedLock,           \* holder of the SpinMutex around SHARED_IRQ_HANDLERS
    privateBorrow,        \* per core RefCell flag: 0 free, n > 0 shared borrows, -1 mutable
    daifI,                \* per core PSTATE.I: TRUE when IRQs are masked
    thread,               \* per core: the registry call the core's thread is executing
    irq,                  \* per core: the handle_irq activation at the IRQ exception level
    pending,              \* per core: interrupt ids pending at the GIC CPU interface
    panicked,             \* None, or the panic that stopped the system
    ncalls,               \* registry calls made so far
    nirqs                 \* interrupts raised so far

VARIABLES
    SECONDARY_STACKS,     \* BTreeMap<u64, SecondaryStack>: [Targets -> stack id or NoStack]
    nstacks,              \* number of stacks allocated so far (Box::new)
    slots,                \* memory: per stack, the two u64 slots below stack_end
    storeBuf,             \* per core: stores issued and not yet completed
    cpu,                  \* per core: what the core is executing
    power,                \* per core: its PSCI affinity state
    psciCalls,            \* the PSCI calls issued so far, with their conduit
    method,               \* the /psci "method" property of the FDT, or None
    system,               \* "running", or "off" after SYSTEM_OFF
    nstarts               \* start_core_with_stack calls made so far

VARIABLES
    ttbr0,                \* per core: the page table its MMU uses, or "off"
    gicCpuInit,           \* per core: GicV3::init_cpu has run for the core
    request               \* per core: the (entry, arg) of the call whose CPU_ON started it

coreVars == <<ttbr0, gicCpuInit, request>>

startVars == <<SECONDARY_STACKS, nstacks, slots, storeBuf, cpu, power,
               psciCalls, method, system, nstarts>>

bringVars == <<SECONDARY_STACKS, nstacks, slots, storeBuf, cpu, power,
               psciCalls, method, system, nstarts, coreVars>>

VARIABLES
    acks,                 \* per interrupt id: acknowledgements read from the GIC so far
    eois,                 \* per interrupt id: end-of-interrupts written to the GIC so far
    ALARM_FIRED,          \* apps::alarm::ALARM_FIRED
    entered               \* the exception vector other than irq_current entered last

gicVars == <<acks, eois, ALARM_FIRED, entered>>

irqVars == <<SHARED_IRQ_HANDLERS, PRIVATE_IRQ_HANDLERS, sharedLock, privateBorrow,
             daifI, thread, irq, pending, panicked, ncalls, nirqs, gicVars>>

\* The identity-mapped page table (IdMap): the leaf descriptor of each page,
\* whether the table is active, the last map_range call with its result,
\* the number of map_range calls, and a panic raised by activate.
\* pool is the number of free frames of the table's page allocator, and
\* reactivated records that activate ran on a table that was already active.
VARIABLES
    pt, active, ptCall, nmaps, ptPanicked, pool, reactivated

ptVars == <<pt, active, ptCall, nmaps, ptPanicked, pool, reactivated>>

\* The boot sequence of main and the statics it publishes: main's position,
\* the PAGETABLE and GIC cells (spin::Once), the core that runs the GIC
\* initialiser, the number of GIC drivers constructed, of global GIC setups
\* and of init_gic calls, whether a GIC register has been accessed, the
\* GIC node of the device tree, and a panic raised during boot.
\* bootCall names the boot-time operation that made the latest step.
VARIABLES
    bootPc, PAGETABLE, GIC, gicRunner, gicNew, gicSetups, ninits, gicTouched,
    fdtGic, bootCall, bootPanic

gicInitVars == <<GIC, gicRunner, gicNew, gicSetups, ninits, gicTouched, fdtGic>>

mainVars == <<bootPc, PAGETABLE, gicInitVars, bootCall>>

\* The CPU list of the device tree (the affinity value of each cpu node, in
\* order), whether FDT has been published, the result of each core's first
\* and latest current_cpu_index call, and the number of such calls.
VARIABLES
    fdtCpus, FDT, firstIndex, lastIndex, nindex

cpuidVars == <<fdtCpus, FDT, firstIndex, lastIndex, nindex>>

\* The devices and their drivers: the holder of the logger's spin mutex
\* (logger::LOGGER.console), the receive side of the console's UART with the
\* bytes Console::read has returned, and the PCI root main builds from the
\* device tree.
VARIABLES
    LOGGER, uart, pciRoot

devVars == <<LOGGER, uart, pciRoot>>

bootVars == <<mainVars, bootPanic, cpuidVars, devVars>>

vars == <<irqVars, bringVars, ptVars, bootVars>>

(***************************************************************************)
(* Helpers.                                                                *)
(***************************************************************************)
EmptyMap == [i \in IntIds |-> None]

\* BTreeMap::contains_key
contains_key(map, intid) == map[intid] # None

\* BTreeMap::get
get(map, intid) == map[intid]

\* A variant of insert that keeps an existing entry (or_insert).
insert_if_absent(map, intid, handler) ==
    IF map[intid] # None THEN map ELSE [map EXCEPT ![intid] = handler]

\* BTreeMap::insert: the new map (the previous value is get(map, intid)).
insert(map, intid, handler) == [map EXCEPT ![intid] = handler]

\* A variant of remove that leaves the entry in the map.
remove_nothing(map, intid) == map

\* BTreeMap::remove: the new map (the removed value is get(map, intid)).
remove(map, intid) == [map EXCEPT ![intid] = None]

Idle == [pc |-> "idle", op |-> None, intid |-> 0, handler |-> None,
         saved |-> FALSE, ret |-> None]

NoIrq == [pc |-> "none", intid |-> 0, scope |-> None, invoked |-> <<>>]

\* No vector other than irq_current has been entered.
NoVector == [core |-> 0, vector |-> "none"]

InitIrq ==
    /\ SHARED_IRQ_HANDLERS = EmptyMap
    /\ PRIVATE_IRQ_HANDLERS = [c \in Cores |-> EmptyMap]
    /\ sharedLock = NoCore
    /\ privateBorrow = [c \in Cores |-> 0]
    /\ daifI = [c \in Cores |-> TRUE]
    /\ thread = [c \in Cores |-> Idle]
    /\ irq = [c \in Cores |-> NoIrq]
    /\ pending = [c \in Cores |-> {}]
    /\ panicked = None
    /\ ncalls = 0
    /\ nirqs = 0
    /\ acks = [i \in IntIds |-> 0]
    /\ eois = [i \in IntIds |-> 0]
    /\ ALARM_FIRED = FALSE
    /\ entered = NoVector

(***************************************************************************)
(* percore::exception_free: run a closure with IRQs masked on this core,   *)
(* restoring the previous mask afterwards.                                 *)
(***************************************************************************)
\* A variant of exception_free_mask that leaves IRQs as they are.
exception_free_mask_unmasked(c) == daifI

\* The mask exception_free installs on core c for the closure.
exception_free_mask(c) == [daifI EXCEPT ![c] = TRUE]

\* The thread of core c runs: it is not suspended by an IRQ being handled,
\* and no panic has stopped the system.
Running(c, pc) == thread[c].pc = pc /\ irq[c].pc = "none" /\ panicked = None

\* RefCell::borrow(): the new borrow flag (a panic when mutably borrowed).
borrow(c) == [privateBorrow EXCEPT ![c] = @ + 1]

\* RefCell::borrow_mut(): the new borrow flag (a panic when borrowed).
borrow_mut(c) == [privateBorrow EXCEPT ![c] = -1]

(***************************************************************************)
(* The thread of a core: calls into the registry.  Each function is cut    *)
(* where it acquires the spin lock (the only point where it waits for      *)
(* another core) and where it asserts, inserts or removes.                 *)
(***************************************************************************)
\* arm_gic::irq_enable(): the thread unmasks IRQs on its core.
irq_enable(c) ==
    /\ Running(c, "idle")
    /\ daifI[c]
    /\ daifI' = [daifI EXCEPT ![c] = FALSE]
    /\ UNCHANGED <<SHARED_IRQ_HANDLERS, PRIVATE_IRQ_HANDLERS, sharedLock,
                   privateBorrow, thread, irq, pending, panicked, ncalls, nirqs>>
    /\ UNCHANGED <<bringVars, gicVars, ptVars, bootVars>>

\* set_shared_irq_handler(intid, handler) is called on core c: exception_free
\* is entered and the private table of the core is borrowed.
set_shared_irq_handler(c) ==
    /\ Running(c, "idle")
    /\ ncalls < MaxCalls
    /\ \E intid \in IntIds, handler \in Handlers :
          thread' = [thread EXCEPT ![c] =
             [pc |-> "assert", op |-> "set_shared_irq_handler", intid |-> intid,
              handler |-> handler, saved |-> daifI[c], ret |-> None]]
    /\ daifI' = exception_free_mask(c)
    /\ IF privateBorrow[c] < 0
       THEN panicked' = "already mutably borrowed" /\ UNCHANGED privateBorrow
       ELSE privateBorrow' = borrow(c) /\ UNCHANGED panicked
    /\ ncalls' = ncalls + 1
    /\ UNCHANGED <<SHARED_IRQ_HANDLERS, PRIVATE_IRQ_HANDLERS, sharedLock,
                   irq, pending, nirqs>>
    /\ UNCHANGED <<bringVars, gicVars, ptVars, bootVars>>

\* A variant of set_shared_assert_cond: the assert! left out.
set_shared_assert_cond_omitted(c, intid) == TRUE

\* The condition of set_shared_irq_handler's assert!: the calling core's
\* private table has no entry for intid.
set_shared_assert_cond(c, intid) ==
    ~contains_key(PRIVATE_IRQ_HANDLERS[c], intid)

\* set_shared_irq_handler: the assert!, after which the Ref is dropped.
set_shared_assert(c) ==
    /\ Running(c, "assert")
    /\ thread[c].op = "set_shared_irq_handler"
    /\ IF set_shared_assert_cond(c, thread[c].intid)
       THEN /\ privateBorrow' = [privateBorrow EXCEPT ![c] = @ - 1]
            /\ thread' = [thread EXCEPT ![c].pc = "lock"]
            /\ UNCHANGED panicked
       ELSE /\ panicked' = "set_shared_irq_handler: Private IRQ handler already exists"
            /\ UNCHANGED <<privateBorrow, thread>>
    /\ UNCHANGED <<SHARED_IRQ_HANDLERS, PRIVATE_IRQ_HANDLERS, sharedLock,
                   daifI, irq, pending, ncalls, nirqs>>
    /\ UNCHANGED <<bringVars, gicVars, ptVars, bootVars>>

\* remove_shared_irq_handler(intid) is called on core c: exception_free is
\* entered.
remove_shared_irq_handler(c) ==
    /\ Running(c, "idle")
    /\ ncalls < MaxCalls
    /\ \E intid \in IntIds :
          thread' = [thread EXCEPT ![c] =
             [pc |-> "lock", op |-> "remove_shared_irq_handler", intid |-> intid,
              handler |-> None, saved |-> daifI[c], ret |-> None]]
    /\ daifI' = exception_free_mask(c)
    /\ ncalls' = ncalls + 1
    /\ UNCHANGED <<SHARED_IRQ_HANDLERS, PRIVATE_IRQ_HANDLERS, sharedLock,
                   privateBorrow, irq, pending, panicked, nirqs>>
    /\ UNCHANGED <<bringVars, gicVars, ptVars, bootVars>>

\* set_private_irq_handler(intid, handler) is called on core c:
\* exception_free is entered.
set_private_irq_handler(c) ==
    /\ Running(c, "idle")
    /\ ncalls < MaxCalls
    /\ \E intid \in IntIds, handler \in Handlers :
          thread' = [thread EXCEPT ![c] =
             [pc |-> "lock", op |-> "set_private_irq_handler", intid |-> intid,
              handler |-> handler, saved |-> daifI[c], ret |-> None]]
    /\ daifI' = exception_free_mask(c)
    /\ ncalls' = ncalls + 1
    /\ UNCHANGED <<SHARED_IRQ_HANDLERS, PRIVATE_IRQ_HANDLERS, sharedLock,
                   privateBorrow, irq, pending, panicked, nirqs>>
    /\ UNCHANGED <<bringVars, gicVars, ptVars, bootVars>>

\* SHARED_IRQ_HANDLERS.borrow(token).lock(): spins until the mutex is free.
lock_shared(c) ==
    /\ Running(c, "lock")
    /\ sharedLock = NoCore
    /\ sharedLock' = c
    /\ thread' = [thread EXCEPT ![c].pc =
          CASE thread[c].op = "set_shared_irq_handler"    -> "insert"
            [] thread[c].op = "remove_shared_irq_handler" -> "remove"
            [] thread[c].op = "set_private_irq_handler"   -> "assert"]
    /\ UNCHANGED <<SHARED_IRQ_HANDLERS, PRIVATE_IRQ_HANDLERS, privateBorrow,
                   daifI, irq, pending, panicked, ncalls, nirqs>>
    /\ UNCHANGED <<bringVars, gicVars, ptVars, bootVars>>

\* The condition of set_private_irq_handler's assert!: the shared table has
\* no entry for intid.
set_private_assert_cond(intid) ==
    ~contains_key(SHARED_IRQ_HANDLERS, intid)

\* set_private_irq_handler: the assert!, after which the guard is dropped,
\* and the borrow_mut of the private table of the core.
set_private_assert(c) ==
    /\ Running(c, "assert")
    /\ thread[c].op = "set_private_irq_handler"
    /\ IF ~set_private_assert_cond(thread[c].intid)
       THEN /\ panicked' = "set_private_irq_handler: Private IRQ handler already exists"
            /\ UNCHANGED <<sharedLock, privateBorrow, thread>>
       ELSE /\ sharedLock' = NoCore
            /\ IF privateBorrow[c] # 0
               THEN /\ panicked' = "already borrowed"
                    /\ UNCHANGED <<privateBorrow, thread>>
               ELSE /\ privateBorrow' = borrow_mut(c)
                    /\ thread' = [thread EXCEPT ![c].pc = "insert"]
                    /\ UNCHANGED panicked
    /\ UNCHANGED <<SHARED_IRQ_HANDLERS, PRIVATE_IRQ_HANDLERS,
                   daifI, irq, pending, ncalls, nirqs>>
    /\ UNCHANGED <<bringVars, gicVars, ptVars, bootVars>>

\* remove_private_irq_handler(intid) is called on core c: exception_free is
\* entered and the private table of the core is mutably borrowed.
remove_private_irq_handler(c) ==
    /\ Running(c, "idle")
    /\ ncalls < MaxCalls
    /\ \E intid \in IntIds :
          thread' = [thread EXCEPT ![c] =
             [pc |-> "remove", op |-> "remove_private_irq_handler", intid |-> intid,
              handler |-> None, saved |-> daifI[c], ret |-> None]]
    /\ daifI' = exception_free_mask(c)
    /\ IF privateBorrow[c] # 0
       THEN panicked' = "already borrowed" /\ UNCHANGED privateBorrow
       ELSE privateBorrow' = borrow_mut(c) /\ UNCHANGED panicked
    /\ ncalls' = ncalls + 1
    /\ UNCHANGED <<SHARED_IRQ_HANDLERS, PRIVATE_IRQ_HANDLERS, sharedLock,
                   irq, pending, nirqs>>
    /\ UNCHANGED <<bringVars, gicVars, ptVars, bootVars>>

\* set_shared_irq_handler: .insert(intid, handler), then the guard is dropped.
set_shared_insert(c) ==
    /\ Running(c, "insert")
    /\ thread[c].op = "set_shared_irq_handler"
    /\ SHARED_IRQ_HANDLERS' =
          insert(SHARED_IRQ_HANDLERS, thread[c].intid, thread[c].handler)
    /\ sharedLock' = NoCore
    /\ thread' = [thread EXCEPT ![c].ret = get(SHARED_IRQ_HANDLERS, thread[c].intid),
                                ![c].pc = "exit"]
    /\ UNCHANGED <<PRIVATE_IRQ_HANDLERS, privateBorrow, daifI, irq, pending,
                   panicked, ncalls, nirqs>>
    /\ UNCHANGED <<bringVars, gicVars, ptVars, bootVars>>

\* set_private_irq_handler: .insert(intid, handler), then the RefMut is dropped.
set_private_insert(c) ==
    /\ Running(c, "insert")
    /\ thread[c].op = "set_private_irq_handler"
    /\ PRIVATE_IRQ_HANDLERS' = [PRIVATE_IRQ_HANDLERS EXCEPT ![c] =
          insert(@, thread[c].intid, thread[c].handler)]
    /\ privateBorrow' = [privateBorrow EXCEPT ![c] = 0]
    /\ thread' = [thread EXCEPT
          ![c].ret = get(PRIVATE_IRQ_HANDLERS[c], thread[c].intid),
          ![c].pc = "exit"]
    /\ UNCHANGED <<SHARED_IRQ_HANDLERS, sharedLock, daifI, irq, pending,
                   panicked, ncalls, nirqs>>
    /\ UNCHANGED <<bringVars, gicVars, ptVars, bootVars>>

\* remove_shared_irq_handler: .remove(&intid), then the guard is dropped.
remove_shared_remove(c) ==
    /\ Running(c, "remove")
    /\ thread[c].op = "remove_shared_irq_handler"
    /\ SHARED_IRQ_HANDLERS' = remove(SHARED_IRQ_HANDLERS, thread[c].intid)
    /\ sharedLock' = NoCore
    /\ thread' = [thread EXCEPT ![c].ret = get(SHARED_IRQ_HANDLERS, thread[c].intid),
                                ![c].pc = "exit"]
    /\ UNCHANGED <<PRIVATE_IRQ_HANDLERS, privateBorrow, daifI, irq, pending,
                   panicked, ncalls, nirqs>>
    /\ UNCHANGED <<bringVars, gicVars, ptVars, bootVars>>

\* remove_private_irq_handler: .remove(&intid), then the RefMut is dropped.
remove_private_remove(c) ==
    /\ Running(c, "remove")
    /\ thread[c].op = "remove_private_irq_handler"
    /\ PRIVATE_IRQ_HANDLERS' = [PRIVATE_IRQ_HANDLERS EXCEPT ![c] =
          remove(@, thread[c].intid)]
    /\ privateBorrow' = [privateBorrow EXCEPT ![c] = 0]
    /\ thread' = [thread EXCEPT
          ![c].ret = get(PRIVATE_IRQ_HANDLERS[c], thread[c].intid),
          ![c].pc = "exit"]
    /\ UNCHANGED <<SHARED_IRQ_HANDLERS, sharedLock, daifI, irq, pending,
                   panicked, ncalls, nirqs>>
    /\ UNCHANGED <<bringVars, gicVars, ptVars, bootVars>>

\* End of exception_free: the saved mask is restored and the function
\* returns thread[c].ret to its caller.
exception_free_exit(c) ==
    /\ Running(c, "exit")
    /\ daifI' = [daifI EXCEPT ![c] = thread[c].saved]
    /\ thread' = [thread EXCEPT ![c] = Idle]
    /\ UNCHANGED <<SHARED_IRQ_HANDLERS, PRIVATE_IRQ_HANDLERS, sharedLock,
                   privateBorrow, irq, pending, panicked, ncalls, nirqs>>
    /\ UNCHANGED <<bringVars, gicVars, ptVars, bootVars>>

(***************************************************************************)
(* The IRQ exception level of a core: the GIC, the trap entry, handle_irq. *)
(***************************************************************************)
\* The GIC makes interrupt intid pending on core c (a device, or an SGI
\* sent by another core).  A shared peripheral interrupt (id 32 and up) has
\* one state for the whole machine: it is signalled to one core, and not
\* again while it is active, that is acknowledged and not yet ended.
RaiseIrq(c) ==
    /\ panicked = None
    /\ nirqs < MaxIrqs
    /\ \E intid \in IntIds \ pending[c] :
          /\ intid >= 32 =>
                /\ acks[intid] = eois[intid]
                /\ \A d \in Cores : intid \notin pending[d]
          /\ pending' = [pending EXCEPT ![c] = @ \cup {intid}]
    /\ nirqs' = nirqs + 1
    /\ UNCHANGED <<SHARED_IRQ_HANDLERS, PRIVATE_IRQ_HANDLERS, sharedLock,
                   privateBorrow, daifI, thread, irq, panicked, ncalls>>
    /\ UNCHANGED <<bringVars, gicVars, ptVars, bootVars>>

\* The exception vectors of exceptions.rs other than irq_current.
FatalVectors ==
    {"sync_exception_current", "fiq_current", "serr_current", "sync_lower",
     "irq_lower", "fiq_lower", "serr_lower"}

\* A variant of unexpected in which the vector returns to the interrupted
\* code.
unexpected_returns(vector) == None

\* The panic of a vector other than irq_current: panic!("Unexpected ...").
unexpected(vector) == "Unexpected " \o vector

\* An exception other than an IRQ at the current level is taken on core c
\* (a synchronous exception and an SError cannot be masked by PSTATE.I, so
\* this happens at any point, inside an interrupt handler too): the vector
\* panics.
unexpected_exception(c, vector) ==
    /\ panicked = None
    /\ entered' = [core |-> c, vector |-> vector]
    /\ panicked' = unexpected(vector)
    /\ UNCHANGED <<SHARED_IRQ_HANDLERS, PRIVATE_IRQ_HANDLERS, sharedLock,
                   privateBorrow, daifI, thread, irq, pending, ncalls, nirqs,
                   acks, eois, ALARM_FIRED>>
    /\ UNCHANGED <<bringVars, ptVars, bootVars>>

\* A variant of exception_entry that leaves IRQs unmasked in the vector.
exception_entry_unmasked(c) == daifI

\* Taking an exception to the current exception level sets PSTATE.I of core
\* c: irq_current and everything it calls start with IRQs masked.
exception_entry(c) == [daifI EXCEPT ![c] = TRUE]

\* The IRQ exception is taken on core c: only with PSTATE.I clear and an
\* interrupt pending; the hardware masks IRQs and enters the vector, which
\* calls handle_irq.  A core that sleeps in wfi completes the instruction
\* first.
irq_current(c) ==
    /\ panicked = None
    /\ irq[c].pc = "none"
    /\ thread[c].pc # "sleep"
    /\ ~daifI[c]
    /\ pending[c] # {}
    /\ daifI' = exception_entry(c)
    /\ irq' = [irq EXCEPT ![c].pc = "ack"]
    /\ UNCHANGED <<SHARED_IRQ_HANDLERS, PRIVATE_IRQ_HANDLERS, sharedLock,
                   privateBorrow, thread, pending, panicked, ncalls, nirqs>>
    /\ UNCHANGED <<bringVars, gicVars, ptVars, bootVars>>

\* A variant of private_lookup that never finds a private handler, so that
\* the shared table decides.
private_lookup_skipped(c, intid) == None

\* A variant of private_lookup that looks in the other core's private table.
private_lookup_other(c, intid) == get(PRIVATE_IRQ_HANDLERS[1 - c], intid)

\* handle_irq: the scrutinee of the first `if let`, the lookup in the
\* current core's private table.
private_lookup(c, intid) == get(PRIVATE_IRQ_HANDLERS[c], intid)

\* handle_irq: the scrutinee of the `else if let`, the lookup in the shared
\* table.
shared_lookup(intid) == get(SHARED_IRQ_HANDLERS, intid)

\* handle_irq: GicV3::get_and_acknowledge_interrupt(), exception_free is
\* entered, then PRIVATE_IRQ_HANDLERS.get().borrow(token).borrow().get(&intid).
\* A hit invokes the handler while the Ref is alive: the Ref is a temporary
\* of the `if let` scrutinee and the handler is a reference into the map.
\* On a miss the Ref is dropped before the else branch (the crate is
\* formatted and built as edition 2024).
handle_irq_private(c) ==
    /\ panicked = None
    /\ irq[c].pc = "ack"
    /\ daifI' = exception_free_mask(c)
    /\ \E intid \in pending[c] :
          /\ pending' = [pending EXCEPT ![c] = @ \ {intid}]
          /\ acks' = [acks EXCEPT ![intid] = @ + 1]
          /\ IF privateBorrow[c] < 0
             THEN /\ panicked' = "already mutably borrowed"
                  /\ UNCHANGED <<privateBorrow, irq>>
             ELSE /\ UNCHANGED panicked
                  /\ IF private_lookup(c, intid) # None
                     THEN /\ privateBorrow' = borrow(c)
                          /\ irq' = [irq EXCEPT ![c] =
                                [pc |-> "handler", intid |-> intid,
                                 scope |-> "private",
                                 invoked |-> <<private_lookup(c, intid)>>]]
                     ELSE /\ UNCHANGED privateBorrow
                          /\ irq' = [irq EXCEPT ![c].pc = "lock",
                                                ![c].intid = intid]
    /\ UNCHANGED <<SHARED_IRQ_HANDLERS, PRIVATE_IRQ_HANDLERS, sharedLock,
                   thread, ncalls, nirqs>>
    /\ UNCHANGED <<bringVars, eois, ALARM_FIRED, entered, ptVars, bootVars>>

\* A variant of unexpected_irq that lets the interrupt go.
unexpected_irq_ignored(intid) == None

\* handle_irq: the else branch, panic!("Unexpected IRQ {:?} with no handler").
unexpected_irq(intid) == "Unexpected IRQ with no handler"

\* handle_irq: SHARED_IRQ_HANDLERS.borrow(token).lock().get(&intid).  The
\* lock spins until the mutex is free; a hit invokes the handler while the
\* guard is alive; a miss panics.
handle_irq_shared(c) ==
    /\ panicked = None
    /\ irq[c].pc = "lock"
    /\ sharedLock = NoCore
    /\ sharedLock' = c
    /\ IF shared_lookup(irq[c].intid) # None
       THEN /\ irq' = [irq EXCEPT
                  ![c].pc = "handler",
                  ![c].scope = "shared",
                  ![c].invoked = Append(@, shared_lookup(irq[c].intid))]
            /\ UNCHANGED panicked
       ELSE /\ panicked' = unexpected_irq(irq[c].intid)
            /\ irq' = [irq EXCEPT ![c].pc = "panic"]
    /\ UNCHANGED <<SHARED_IRQ_HANDLERS, PRIVATE_IRQ_HANDLERS, privateBorrow,
                   daifI, thread, pending, ncalls, nirqs>>
    /\ UNCHANGED <<bringVars, gicVars, ptVars, bootVars>>

\* The handlers the kernel registers, by what they do to the GIC:
\* Console::<Uart>::handle_irq ends the interrupt (Uart::handle_irq of the
\* 8250 driver), alarm::irq_handle sets ALARM_FIRED and leaves the
\* end-of-interrupt to irq_finish, secondary_irq_handler only logs.
ConsoleHandler == "Console::handle_irq"
AlarmHandler == "alarm::irq_handle"
SgiHandler == "secondary_irq_handler"

\* PlatformImpl::RTC_IRQ, IntId::spi(1).
RTC_IRQ == 33

\* The handlers that write a log record: alarm::irq_handle and
\* secondary_irq_handler call info!, which is Logger::log.
handler_logs(handler) == handler \in {AlarmHandler, SgiHandler}

\* A variant of irq_handle that does not record the alarm.
irq_handle_no_store(handler) == ALARM_FIRED

\* apps::alarm::irq_handle: ALARM_FIRED.store(true, SeqCst), the new value
\* of the flag after the body of the invoked handler.
irq_handle(handler) == IF handler = AlarmHandler THEN TRUE ELSE ALARM_FIRED

\* The body of the invoked handler runs on core c, with the interrupt id as
\* its argument.  The callbacks h1 and h2 of the registry's callers do not
\* touch the GIC.  A handler that logs takes the logger's spin mutex for
\* the record (Logger::log: self.console.lock()), spinning until it is
\* free, and releases it before it returns.
handler_runs(c) ==
    /\ panicked = None
    /\ irq[c].pc = "handler"
    /\ LET handler == irq[c].invoked[Len(irq[c].invoked)] IN
          /\ handler_logs(handler) => LOGGER = NoCore
          /\ eois' = IF handler = ConsoleHandler
                     THEN [eois EXCEPT ![irq[c].intid] = @ + 1]
                     ELSE eois
          /\ ALARM_FIRED' = irq_handle(handler)
    /\ irq' = [irq EXCEPT ![c].pc = "handled"]
    /\ UNCHANGED <<SHARED_IRQ_HANDLERS, PRIVATE_IRQ_HANDLERS, sharedLock,
                   privateBorrow, daifI, thread, pending, panicked, ncalls,
                   nirqs, acks, entered>>
    /\ UNCHANGED <<bringVars, ptVars, bootVars>>

\* The registered handler has returned into handle_irq: end of the `if let`
\* statement (the guards are dropped), end of exception_free, return from
\* handle_irq and from the exception: the interrupted code continues with
\* IRQs unmasked as they were.
handle_irq_return(c) ==
    /\ panicked = None
    /\ irq[c].pc = "handled"
    /\ sharedLock' = IF sharedLock = c THEN NoCore ELSE sharedLock
    /\ privateBorrow' = [privateBorrow EXCEPT ![c] = 0]
    /\ daifI' = [daifI EXCEPT ![c] = FALSE]
    /\ irq' = [irq EXCEPT ![c] = NoIrq]
    /\ UNCHANGED <<SHARED_IRQ_HANDLERS, PRIVATE_IRQ_HANDLERS, thread, pending,
                   panicked, ncalls, nirqs>>
    /\ UNCHANGED <<bringVars, gicVars, ptVars, bootVars>>

\* A variant of alarm_fired_swap that reports a fired alarm every time.
alarm_fired_swap_always == TRUE

\* apps::alarm::irq_finish: ALARM_FIRED.swap(false, SeqCst), the old value.
alarm_fired_swap == ALARM_FIRED

\* apps::alarm::irq_finish on core c (the shell, before it sets an alarm):
\* if the alarm handler has run since the last call, the RTC interrupt is
\* cleared and ended.
irq_finish(c) ==
    /\ Running(c, "idle")
    /\ c = 0
    /\ IF alarm_fired_swap
       THEN eois' = [eois EXCEPT ![RTC_IRQ] = @ + 1]
       ELSE UNCHANGED eois
    /\ ALARM_FIRED' = FALSE
    /\ UNCHANGED <<SHARED_IRQ_HANDLERS, PRIVATE_IRQ_HANDLERS, sharedLock,
                   privateBorrow, daifI, thread, irq, pending, panicked, ncalls,
                   nirqs, acks, entered>>
    /\ UNCHANGED <<bringVars, ptVars, bootVars>>

\* A variant of expect_pending that goes on without an interrupt id.
expect_pending_unchecked(c) == None

\* handle_irq: get_and_acknowledge_interrupt(..).expect("No pending
\* interrupt"): the panic when the GIC has nothing pending for core c.
expect_pending(c) == IF pending[c] = {} THEN "No pending interrupt" ELSE None

\* handle_irq() is entered on core c while the GIC has no interrupt pending
\* for it: the acknowledge register reads as a spurious id, which
\* get_and_acknowledge_interrupt returns as None.
handle_irq_no_pending(c) ==
    /\ Running(c, "idle")
    /\ pending[c] = {}
    /\ panicked' = expect_pending(c)
    /\ irq' = [irq EXCEPT ![c].pc = "panic"]
    /\ UNCHANGED <<SHARED_IRQ_HANDLERS, PRIVATE_IRQ_HANDLERS, sharedLock,
                   privateBorrow, daifI, thread, pending, ncalls, nirqs>>
    /\ UNCHANGED <<bringVars, gicVars, ptVars, bootVars>>

(***************************************************************************)
(* Secondary-core bring-up (secondary_entry.rs, apps/cpus.rs, main.rs).    *)
(***************************************************************************)
\* The cores of the machine, by MPIDR affinity: 0 is the boot core.
Mpidrs == {0, 1, 2}
\* The affinity ids callers pass: two cores of the machine and one id that
\* no core has.
Targets == {1, 2, 3}
\* The (rust_entry, arg) pairs callers pass.
Payloads == {[entry |-> "e1", arg |-> 42], [entry |-> "e2", arg |-> 7]}
\* No stack / the boot stack of the primary core.
NoStack == 0
\* The content of the two slots of a stack that no completed store has
\* written.
Uninit == [entry |-> "uninit", arg |-> -1]

\* No start request: the core was not started by a CPU_ON call.
NoRequest == [entry |-> None, arg |-> 0]

\* Status values a PSCI CPU_ON call returns besides SUCCESS.
PsciErrors == {"AlreadyOn", "OnPending", "InvalidParameters", "Denied",
               "InternalFailure"}

Off == [pc |-> "off", target |-> 0, stack |-> NoStack, entry |-> None, arg |-> 0,
        status |-> None, result |-> None, sp |-> NoStack, rentry |-> None,
        rarg |-> 0, offStatus |-> None]

\* A core that runs its code and is in no start_core_with_stack call.
RunningOn(sp, rentry, rarg) ==
    [Off EXCEPT !.pc = "run", !.sp = sp, !.rentry = rentry, !.rarg = rarg]

\* The state of the stacks, the cores and the firmware after boot, before
\* any core has been started.
BringupIdle ==
    /\ SECONDARY_STACKS = [t \in Targets |-> NoStack]
    /\ nstacks = 0
    /\ slots = <<>>
    /\ storeBuf = [m \in Mpidrs |-> <<>>]
    /\ cpu = [m \in Mpidrs |-> IF m = 0 THEN RunningOn(NoStack, "main", 0) ELSE Off]
    /\ power = [m \in Mpidrs |-> IF m = 0 THEN "on" ELSE "off"]
    /\ psciCalls = {}
    /\ system = "running"
    /\ nstarts = 0
    /\ ttbr0 = [m \in Mpidrs |-> IF m = 0 THEN "idmap" ELSE "off"]
    /\ gicCpuInit = [m \in Mpidrs |-> m = 0]
    /\ request = [m \in Mpidrs |-> NoRequest]

\* main::smc_for_psci: whether to use SMC rather than HVC for PSCI.  FDT is
\* set before any caller of this function runs.
smc_for_psci == method = "smc"

\* The conduit of the calls that select it with smc_for_psci().
SelectedConduit == IF smc_for_psci THEN "Smc" ELSE "Hvc"

\* The conduit start_core passes to psci::cpu_on.
cpu_on_conduit == "Hvc"

\* Core m executes code (it is on, and the system has not been powered off).
Executing(m, pc) == system = "running" /\ power[m] # "off" /\ cpu[m].pc = pc

\* A variant of stack_or_default that allocates a new stack on every call.
stack_or_default_fresh(mpidr) == nstacks + 1

\* A variant of stack_or_default that hands the first stack to every id.
stack_or_default_shared(mpidr) == 1

\* get_secondary_stack: SECONDARY_STACKS.lock().entry(mpidr).or_default().ptr():
\* the stack of the existing entry, or a newly allocated one.
stack_or_default(mpidr) ==
    IF SECONDARY_STACKS[mpidr] # NoStack THEN SECONDARY_STACKS[mpidr]
    ELSE nstacks + 1

\* get_secondary_stack(mpidr) on behalf of core c, which then enters
\* start_core with the pointer it returned.
get_secondary_stack(c, mpidr, payload) ==
    LET stack == stack_or_default(mpidr) IN
    /\ SECONDARY_STACKS' = [SECONDARY_STACKS EXCEPT ![mpidr] = stack]
    /\ nstacks' = IF stack > nstacks THEN stack ELSE nstacks
    /\ slots' = IF stack > nstacks
                THEN Append(slots, Uninit)
                ELSE slots
    /\ cpu' = [cpu EXCEPT ![c].pc = "store_entry", ![c].target = mpidr,
                          ![c].stack = stack, ![c].entry = payload.entry,
                          ![c].arg = payload.arg, ![c].status = None,
                          ![c].result = None]

\* start_core_with_stack(mpidr, rust_entry, arg) is called on core c.
start_core_with_stack(c) ==
    /\ Executing(c, "run")
    /\ nstarts < MaxStarts
    /\ \E mpidr \in Targets, payload \in Payloads :
          get_secondary_stack(c, mpidr, payload)
    /\ nstarts' = nstarts + 1
    /\ UNCHANGED <<storeBuf, power, psciCalls, method, system>>
    /\ UNCHANGED <<irqVars, ptVars, bootVars>>
    /\ UNCHANGED coreVars

\* A variant of affinity_info that reports every core as off.
affinity_info_off(mpidr) == "off"

\* The PSCI AFFINITY_INFO state of an affinity id.
affinity_info(mpidr) ==
    IF mpidr \in Mpidrs THEN power[mpidr] ELSE "InvalidParameters"

\* apps::cpus::start_cpu on the shell's core: the affinity query, and
\* start_core_with_stack only when it reports Off.
start_cpu(c) ==
    /\ c = 0
    /\ Executing(c, "run")
    /\ nstarts < MaxStarts
    /\ psciCalls' = psciCalls \cup {[fn |-> "affinity_info", conduit |-> SelectedConduit]}
    /\ \E mpidr \in Targets \cap Mpidrs, payload \in Payloads :
          IF affinity_info(mpidr) = "off"
          THEN get_secondary_stack(c, mpidr, payload)
          ELSE UNCHANGED <<SECONDARY_STACKS, nstacks, slots, cpu>>
    /\ nstarts' = nstarts + 1
    /\ UNCHANGED <<storeBuf, power, method, system>>
    /\ UNCHANGED <<irqVars, ptVars, bootVars>>
    /\ UNCHANGED coreVars

\* start_core: *params.wrapping_sub(1) = rust_entry
store_entry(c) ==
    /\ Executing(c, "store_entry")
    /\ storeBuf' = [storeBuf EXCEPT ![c] =
          Append(@, [stack |-> cpu[c].stack, slot |-> "entry", val |-> cpu[c].entry])]
    /\ cpu' = [cpu EXCEPT ![c].pc = "store_arg"]
    /\ UNCHANGED <<SECONDARY_STACKS, nstacks, slots, power, psciCalls, method,
                   system, nstarts>>
    /\ UNCHANGED <<irqVars, ptVars, bootVars>>
    /\ UNCHANGED coreVars

\* start_core: *params.wrapping_sub(2) = arg
store_arg(c) ==
    /\ Executing(c, "store_arg")
    /\ storeBuf' = [storeBuf EXCEPT ![c] =
          Append(@, [stack |-> cpu[c].stack, slot |-> "arg", val |-> cpu[c].arg])]
    /\ cpu' = [cpu EXCEPT ![c].pc = "dsb"]
    /\ UNCHANGED <<SECONDARY_STACKS, nstacks, slots, power, psciCalls, method,
                   system, nstarts>>
    /\ UNCHANGED <<irqVars, ptVars, bootVars>>
    /\ UNCHANGED coreVars

\* The oldest store of core c completes: it becomes visible to every core.
StoreCompletes(c) ==
    /\ system = "running"
    /\ storeBuf[c] # <<>>
    /\ LET st == Head(storeBuf[c]) IN
          slots' = [slots EXCEPT ![st.stack] =
                       IF st.slot = "entry" THEN [@ EXCEPT !.entry = st.val]
                                            ELSE [@ EXCEPT !.arg = st.val]]
    /\ storeBuf' = [storeBuf EXCEPT ![c] = Tail(@)]
    /\ UNCHANGED <<SECONDARY_STACKS, nstacks, cpu, power, psciCalls, method,
                   system, nstarts>>
    /\ UNCHANGED <<irqVars, ptVars, bootVars>>
    /\ UNCHANGED coreVars

\* A variant of dsb_st_done: a barrier that does not wait.
dsb_st_done_nowait(c) == TRUE

\* `dsb st` retires on core c once all its earlier stores have completed.
dsb_st_done(c) == storeBuf[c] = <<>>

\* start_core: dsb_st()
dsb_st(c) ==
    /\ Executing(c, "dsb")
    /\ dsb_st_done(c)
    /\ cpu' = [cpu EXCEPT ![c].pc = "cpu_on"]
    /\ UNCHANGED <<SECONDARY_STACKS, nstacks, slots, storeBuf, power, psciCalls,
                   method, system, nstarts>>
    /\ UNCHANGED <<irqVars, ptVars, bootVars>>
    /\ UNCHANGED coreVars

\* The status values the firmware can return for CPU_ON of mpidr.
firmware_cpu_on(mpidr) ==
    IF mpidr \notin Mpidrs THEN {"InvalidParameters"}
    ELSE IF power[mpidr] = "on" THEN {"AlreadyOn"}
    ELSE IF power[mpidr] = "on_pending" THEN {"OnPending"}
    ELSE {"Success", "Denied", "InternalFailure"}

\* A variant of start_core_result that unwraps the status.
start_core_result_unwrap(status) ==
    IF status = "Success" THEN [ok |-> TRUE, err |-> None]
    ELSE [ok |-> FALSE, err |-> "panic"]

\* What start_core, and so start_core_with_stack, returns for a CPU_ON
\* status: the Result of psci::cpu_on, passed on as it is.
start_core_result(status) ==
    IF status = "Success" THEN [ok |-> TRUE, err |-> None]
    ELSE [ok |-> FALSE, err |-> status]

\* start_core: psci::cpu_on::<Hvc>(mpidr, secondary_entry, stack_end).  On
\* success the target core is pending with stack_end as its context id.
cpu_on(c) ==
    /\ Executing(c, "cpu_on")
    /\ psciCalls' = psciCalls \cup {[fn |-> "cpu_on", conduit |-> cpu_on_conduit]}
    /\ \E status \in firmware_cpu_on(cpu[c].target) :
          LET r == start_core_result(status) IN
          IF status = "Success"
          THEN /\ power' = [power EXCEPT ![cpu[c].target] = "on_pending"]
               /\ cpu' = [cpu EXCEPT
                     ![c].pc = "ret", ![c].status = status, ![c].result = r,
                     ![cpu[c].target] = [Off EXCEPT !.pc = "boot",
                                                    !.sp = cpu[c].stack]]
               /\ request' = [request EXCEPT ![cpu[c].target] =
                                 [entry |-> cpu[c].entry, arg |-> cpu[c].arg]]
          ELSE /\ UNCHANGED <<power, request>>
               /\ cpu' = [cpu EXCEPT ![c].pc = "ret", ![c].status = status,
                                     ![c].result = r]
    /\ UNCHANGED <<ttbr0, gicCpuInit>>
    /\ UNCHANGED <<SECONDARY_STACKS, nstacks, slots, storeBuf, method, system,
                   nstarts>>
    /\ UNCHANGED <<irqVars, ptVars, bootVars>>

\* start_core_with_stack returns cpu[c].result to its caller.
start_core_return(c) ==
    /\ Executing(c, "ret")
    /\ cpu' = [cpu EXCEPT ![c] = RunningOn(cpu[c].sp, cpu[c].rentry, cpu[c].rarg)]
    /\ UNCHANGED <<SECONDARY_STACKS, nstacks, slots, storeBuf, power, psciCalls,
                   method, system, nstarts>>
    /\ UNCHANGED <<irqVars, ptVars, bootVars>>
    /\ UNCHANGED coreVars

\* The started core runs secondary_entry(stack_end): it enables the MMU
\* with the initial page table, sets its stack pointer, loads the entry
\* point and the argument from the two slots below it and jumps to the
\* entry point.  Nothing on the way calls IdMap::activate_secondary or
\* secondary_init_gic.
secondary_entry(m) ==
    /\ Executing(m, "boot")
    /\ power' = [power EXCEPT ![m] = "on"]
    /\ ttbr0' = [ttbr0 EXCEPT ![m] = "initial"]
    /\ UNCHANGED <<gicCpuInit, request>>
    /\ cpu' = [cpu EXCEPT ![m] =
          RunningOn(cpu[m].sp, slots[cpu[m].sp].entry, slots[cpu[m].sp].arg)]
    /\ UNCHANGED <<SECONDARY_STACKS, nstacks, slots, storeBuf, psciCalls,
                   method, system, nstarts>>
    /\ UNCHANGED <<irqVars, ptVars, bootVars>>

\* What the firmware does with CPU_OFF: it powers the core down and the call
\* does not return ("off"), or the call returns SUCCESS or DENIED.
firmware_cpu_off == {"off", "Success", "Denied"}

\* The conduit of system_off in Platform::power_off, which the panic handler
\* calls.
panic_power_off_conduit == "Hvc"

\* apps::cpus::secondary_entry: the secondary core is done and issues
\* psci::cpu_off with the conduit smc_for_psci() selects, and unwraps the
\* result.  A call that returns Ok is followed by error!() and `loop {}`;
\* a call that returns Err panics in unwrap(), and the panic handler powers
\* the system off.
cpu_off(m) ==
    /\ m # 0
    /\ Executing(m, "run")
    /\ storeBuf[m] = <<>>
    /\ \E status \in firmware_cpu_off :
          CASE status = "off" ->
                  /\ psciCalls' = psciCalls \cup
                        {[fn |-> "cpu_off", conduit |-> SelectedConduit]}
                  /\ power' = [power EXCEPT ![m] = "off"]
                  /\ cpu' = [cpu EXCEPT ![m] = Off]
                  /\ ttbr0' = [ttbr0 EXCEPT ![m] = "off"]
                  /\ gicCpuInit' = [gicCpuInit EXCEPT ![m] = FALSE]
                  /\ request' = [request EXCEPT ![m] = NoRequest]
                  /\ UNCHANGED system
            [] status = "Success" ->
                  /\ psciCalls' = psciCalls \cup
                        {[fn |-> "cpu_off", conduit |-> SelectedConduit]}
                  /\ cpu' = [cpu EXCEPT ![m].pc = "halt", ![m].offStatus = status]
                  /\ UNCHANGED <<power, system, coreVars>>
            [] status = "Denied" ->
                  /\ psciCalls' = psciCalls \cup
                        {[fn |-> "cpu_off", conduit |-> SelectedConduit],
                         [fn |-> "system_off", conduit |-> panic_power_off_conduit]}
                  /\ cpu' = [cpu EXCEPT ![m].pc = "panic", ![m].offStatus = status]
                  /\ system' = "off"
                  /\ UNCHANGED <<power, coreVars>>
    /\ UNCHANGED <<SECONDARY_STACKS, nstacks, slots, storeBuf, method, nstarts>>
    /\ UNCHANGED <<irqVars, ptVars, bootVars>>

\* apps::cpus::cpus on the shell's core: psci::version and
\* psci::affinity_info with the conduit smc_for_psci() selects.
cpus(c) ==
    /\ c = 0
    /\ Executing(c, "run")
    /\ [fn |-> "version", conduit |-> SelectedConduit] \notin psciCalls
    /\ psciCalls' = psciCalls \cup
          {[fn |-> "version", conduit |-> SelectedConduit],
           [fn |-> "affinity_info", conduit |-> SelectedConduit]}
    /\ UNCHANGED <<SECONDARY_STACKS, nstacks, slots, storeBuf, cpu, power,
                   method, system, nstarts>>
    /\ UNCHANGED <<irqVars, ptVars, bootVars>>
    /\ UNCHANGED coreVars

\* main::power_off on the boot core: system_off with the conduit
\* smc_for_psci() selects; the machine stops.
power_off(c) ==
    /\ c = 0
    /\ Executing(c, "run")
    /\ psciCalls' = psciCalls \cup {[fn |-> "system_off", conduit |-> SelectedConduit]}
    /\ system' = "off"
    /\ UNCHANGED <<SECONDARY_STACKS, nstacks, slots, storeBuf, cpu, power,
                   method, nstarts>>
    /\ UNCHANGED <<irqVars, ptVars, bootVars>>
    /\ UNCHANGED coreVars

(***************************************************************************)
(* The identity-mapped page table (src/src/pagetable.rs).                  *)
(***************************************************************************)
\* Number of pages of virtual address space the modelled table covers.
MaxPages == 3
\* Total number of IdMap::map_range calls.
MaxMaps == 2

\* aarch64_paging::paging::PAGE_SIZE, the 4 KiB translation granule.
PAGE_SIZE == 4096

\* The addresses callers build regions from: every half page up to one
\* page past the end of the table.
Addrs == {k * (PAGE_SIZE \div 2) : k \in 0..(2 * MaxPages + 2)}
\* The base address of each page the table covers.
PageBases == {k * PAGE_SIZE : k \in 0..(MaxPages - 1)}

DEVICE_ATTRIBUTES == "DEVICE_ATTRIBUTES"
MEMORY_ATTRIBUTES == "MEMORY_ATTRIBUTES"
Attrs == {DEVICE_ATTRIBUTES, MEMORY_ATTRIBUTES}

\* An invalid (all-zero) leaf descriptor.
Unmapped == [pa |-> -1, flags |-> None]
\* No map_range call has been made.
NoCall == [start |-> 0, end |-> 0, pa |-> 0, flags |-> None, ret |-> None]

align_down(a) == a - (a % PAGE_SIZE)
align_up(a) == align_down(a + PAGE_SIZE - 1)

\* MemoryRegion::new(start, end): the smallest page-aligned region that
\* contains [start, end).
MemoryRegion_new(start, end) ==
    [start |-> align_down(start), end |-> align_up(end)]

\* IdMap::size(): the bytes of virtual address space the table can map.
IdMap_size == MaxPages * PAGE_SIZE

\* A translation that is off by one page.
virtual_to_physical_offset(va) == va + PAGE_SIZE

\* IdTranslation::virtual_to_physical.
virtual_to_physical(va) == va

\* The pages of a region.
PagesOf(range) == {p \in PageBases : range.start <= p /\ p < range.end}

\* The leaf descriptor Mapping::map_range installs for page p of a range
\* mapped at pa: the range is mapped linearly from pa.
Descriptor(range, pa, flags, p) ==
    [pa |-> pa + (p - range.start), flags |-> flags]

\* The MapError of Mapping::map_range(range, pa, flags, Constraints::empty()),
\* or None for Ok: the range must lie in the table and run forwards, and
\* a table that is live may not have a valid descriptor changed under it.
\* A table that is not yet active accepts any change.
mapping_map_range(range, pa, flags) ==
    IF range.end > IdMap_size THEN "AddressRange"
    ELSE IF range.start > range.end THEN "RegionBackwards"
    ELSE IF active /\ \E p \in PagesOf(range) :
                         /\ pt[p] # Unmapped
                         /\ pt[p] # Descriptor(range, pa, flags, p)
         THEN "BreakBeforeMakeViolation"
    ELSE None

\* Frames in the page allocator a new IdMap is given, beyond its root table.
MaxFrames == 3

\* The tables Mapping::map_range has to allocate for a range: the model
\* takes one frame for each page of the range that has no descriptor yet
\* (a page of the model stands for the span of one table).
FramesNeeded(range) == Cardinality({p \in PagesOf(range) : pt[p] = Unmapped})

\* IdMap::map_range(&MemoryRegion::new(start, end), flags) on the state of
\* the IdMap.  IdTranslation::allocate_table panics when the page allocator
\* is exhausted.
IdMap_map_range(start, end, flags) ==
    /\ nmaps' = nmaps + 1
    /\ LET range == MemoryRegion_new(start, end)
           pa == virtual_to_physical(range.start)
           err == mapping_map_range(range, pa, flags)
           need == IF err = None THEN FramesNeeded(range) ELSE 0
       IN  IF need > pool
           THEN /\ ptCall' = [start |-> start, end |-> end, pa |-> pa,
                              flags |-> flags, ret |-> "panic"]
                /\ ptPanicked' = "Failed to allocate page for pagetable"
                /\ pool' = 0
                /\ pt' = pt
           ELSE /\ ptCall' = [start |-> start, end |-> end, pa |-> pa,
                              flags |-> flags,
                              ret |-> IF err = None THEN "Ok" ELSE err]
                /\ pt' = IF err = None
                         THEN [p \in PageBases |->
                                 IF p \in PagesOf(range)
                                 THEN Descriptor(range, pa, flags, p)
                                 ELSE pt[p]]
                         ELSE pt
                /\ pool' = pool - need
                /\ UNCHANGED ptPanicked
    /\ UNCHANGED <<active, reactivated>>

\* A caller of IdMap::map_range.
map_range(start, end, flags) ==
    /\ ptPanicked = None
    /\ nmaps < MaxMaps
    /\ IdMap_map_range(start, end, flags)
    /\ UNCHANGED <<irqVars, bringVars, bootVars>>

\* IdMap::activate on the state of the IdMap: self.mapping.activate()
\* writes TTBR0_EL1 and marks the table active, whether or not it was
\* active before (activate_secondary makes the same call on a table it
\* has asserted to be active).
IdMap_activate ==
    /\ active' = TRUE
    /\ reactivated' = (reactivated \/ active)
    /\ UNCHANGED <<pt, ptCall, nmaps, ptPanicked, pool>>

\* A caller of IdMap::activate on the boot core.
activate(c) ==
    /\ c = 0
    /\ ptPanicked = None
    /\ ~reactivated
    /\ IdMap_activate
    /\ UNCHANGED <<irqVars, bringVars, bootVars>>

\* The physical address the table translates address a to; -1 is a
\* translation fault.
translate(a) ==
    LET p == align_down(a)
    IN  IF p \in PageBases /\ pt[p] # Unmapped THEN pt[p].pa + (a - p) ELSE -1

\* IdMap::new: an empty table that is not active.
PagetableNew ==
    /\ pt = [p \in PageBases |-> Unmapped]
    /\ active = FALSE
    /\ ptCall = NoCall
    /\ nmaps = 0
    /\ ptPanicked = None
    /\ pool = MaxFrames
    /\ reactivated = FALSE

\* The table as main leaves it: memory mapped, table activated and moved
\* into PAGETABLE, where it can no longer be changed.
PagetableBuilt ==
    /\ pt = [p \in PageBases |-> [pa |-> p, flags |-> MEMORY_ATTRIBUTES]]
    /\ active = TRUE
    /\ ptCall = NoCall
    /\ nmaps = MaxMaps
    /\ ptPanicked = None
    /\ pool = 0
    /\ reactivated = FALSE

(***************************************************************************)
(* Logical core indexes (src/src/cpus.rs).                                 *)
(***************************************************************************)
\* Total number of current_cpu_index calls made by all cores.
MaxIndexCalls == 3
\* The longest CPU list of a device tree.
MaxCpus == 3

\* The affinity fields a core's MPIDR can hold (mpidr_affinity()).
Affinities == {0, 1, 2}

\* The device tree of the machine the other specifications run on.
AllCpus == <<0, 1, 2>>

\* The CPU lists a device tree can hold: the affinity value of each cpu
\* node, in the order of the nodes.
RECURSIVE SeqsUpTo(_)
SeqsUpTo(n) ==
    IF n = 0 THEN {<<>>}
    ELSE SeqsUpTo(n - 1) \cup
         {Append(q, a) : q \in {x \in SeqsUpTo(n - 1) : Len(x) = n - 1},
                         a \in Affinities}
CpuLists == SeqsUpTo(MaxCpus)

\* cpus::cpu_count.
cpu_count == Len(fdtCpus)

\* Option<usize>: Some(v) and None.
Some(v) == [some |-> TRUE, v |-> v]
NoIndex == [some |-> FALSE, v |-> 0]

\* The place, from 1, of the first element of the list equal to a.
FirstAt(list, a) ==
    CHOOSE i \in 1..Len(list) : list[i] = a /\ \A j \in 1..(i - 1) : list[j] # a

\* An index that moves with the number of calls made so far.
position_rotating(list, a) ==
    IF \E i \in 1..Len(list) : list[i] = a
    THEN Some((FirstAt(list, a) - 1 + nindex) % Len(list))
    ELSE NoIndex

\* Iterator::position: the index, from 0, of the first element equal to a.
position(list, a) ==
    IF \E i \in 1..Len(list) : list[i] = a
    THEN Some(FirstAt(list, a) - 1)
    ELSE NoIndex

\* cpus::mpidr_to_cpu_index.
mpidr_to_cpu_index(mpidr_affinity) == position(fdtCpus, mpidr_affinity)

\* An index lookup that falls back to index 0.
index_unwrap_or_zero(opt) == [panic |-> None, v |-> opt.v]

\* Option::unwrap on the result of mpidr_to_cpu_index: the index, or the
\* panic message.
index_unwrap(opt) ==
    [panic |-> IF opt.some THEN None
               ELSE "called Option::unwrap() on a None value",
     v |-> opt.v]

\* main publishes the device tree (FDT.call_once).
FDT_call_once(c) ==
    /\ c = 0
    /\ bootPanic = None
    /\ ~FDT
    /\ FDT' = TRUE
    /\ UNCHANGED <<fdtCpus, firstIndex, lastIndex, nindex>>
    /\ UNCHANGED <<mainVars, bootPanic>>
    /\ UNCHANGED <<irqVars, bringVars, ptVars>>
    /\ UNCHANGED devVars

\* cpus::current_cpu_index on the core whose affinity is a:
\* FDT.get().unwrap(), the lookup, and the unwrap of its result.
current_cpu_index(a) ==
    /\ bootPanic = None
    /\ nindex < MaxIndexCalls
    /\ nindex' = nindex + 1
    /\ IF ~FDT
       THEN /\ bootPanic' = "called Option::unwrap() on a None value"
            /\ UNCHANGED <<firstIndex, lastIndex>>
       ELSE LET r == index_unwrap(mpidr_to_cpu_index(a))
            IN  /\ bootPanic' = r.panic
                /\ IF r.panic = None
                   THEN /\ lastIndex' = [lastIndex EXCEPT ![a] = Some(r.v)]
                        /\ firstIndex' = IF firstIndex[a].some
                                         THEN firstIndex
                                         ELSE [firstIndex EXCEPT ![a] = Some(r.v)]
                   ELSE UNCHANGED <<firstIndex, lastIndex>>
    /\ bootCall' = [fn |-> "current_cpu_index", core |-> a]
    /\ UNCHANGED <<fdtCpus, FDT>>
    /\ UNCHANGED <<bootPc, PAGETABLE, gicInitVars>>
    /\ UNCHANGED <<irqVars, bringVars, ptVars>>
    /\ UNCHANGED devVars

\* The core indexes while other parts of the kernel are exercised: the
\* device tree lists every core and no index is being looked up.
CpuidIdle ==
    /\ fdtCpus = AllCpus
    /\ FDT = TRUE
    /\ firstIndex = [a \in Affinities |-> NoIndex]
    /\ lastIndex = [a \in Affinities |-> NoIndex]
    /\ nindex = MaxIndexCalls

(***************************************************************************)
(* Boot: main builds and activates the page table and initialises the GIC  *)
(* (src/src/main.rs, src/src/interrupts.rs, src/src/pagetable.rs).         *)
(***************************************************************************)
\* Total number of init_gic calls made by all cores.
MaxInits == 2

\* The regions the device tree and the PCI roots describe: one inside the
\* table, one that is not page aligned and overlaps it, and one that
\* reaches past the end of the table.
BootRegions ==
    {[start |-> 0, end |-> 2 * PAGE_SIZE],
     [start |-> PAGE_SIZE + PAGE_SIZE \div 2, end |-> 3 * PAGE_SIZE],
     [start |-> 2 * PAGE_SIZE, end |-> IdMap_size + PAGE_SIZE]}

\* size_of::<Gicd>() and size_of::<GicrSgi>(), in 64 KiB frames.
GicdSize == 1
GicrSgiSize == 2

\* The GIC node a device tree can hold: whether there is a node compatible
\* with "arm,gic-v3", how many reg entries it has, and the sizes of its
\* distributor and redistributor regions.
FdtGics ==
    [node : BOOLEAN, regs : {1, 2}, gicd : {GicdSize, GicdSize + 1},
     gicr : {GicrSgiSize * Len(AllCpus) - 1, GicrSgiSize * Len(AllCpus)}]

NoFdtGic == [node |-> FALSE, regs |-> 0, gicd |-> 0, gicr |-> 0]
ValidFdtGic == [node |-> TRUE, regs |-> 2, gicd |-> GicdSize,
                gicr |-> GicrSgiSize * Len(AllCpus)]

NoBootCall == [fn |-> None, core |-> 0]

\* A redistributor check that asks for room for one core only.
gicr_region_valid_one_frame(size, n) == size >= GicrSgiSize

\* make_gic: gicr_region.size >= size_of::<GicrSgi>() * cpu_count.
gicr_region_valid(size, n) == size >= GicrSgiSize * n

\* make_gic: the panic it raises, or whether it returns Some(driver).
make_gic(fdt) ==
    IF ~fdt.node THEN [panic |-> None, some |-> FALSE]
    ELSE IF fdt.regs < 1 THEN [panic |-> "GICD region missing", some |-> FALSE]
    ELSE IF fdt.regs < 2 THEN [panic |-> "GICR region missing", some |-> FALSE]
    ELSE IF fdt.gicd # GicdSize
         THEN [panic |-> "assertion left == right failed", some |-> FALSE]
    ELSE IF ~gicr_region_valid(fdt.gicr, cpu_count)
         THEN [panic |-> "assertion failed: gicr_region.size >= size_of::<GicrSgi>() * cpu_count",
               some |-> FALSE]
    ELSE [panic |-> None, some |-> TRUE]

\* A cell that runs its initialiser again once the first one is done.
call_once_runs_always(state) == state # "running"

\* spin::Once::call_once runs the initialiser only on a cell that no
\* initialiser has been started on.
call_once_runs(state) == state = "incomplete"

\* An accessor that hands out the driver while its initialiser still runs.
GIC_get_early == IF GIC # "incomplete" THEN "driver" ELSE None

\* GIC.get(): the driver once the initialiser has completed.
GIC_get == IF GIC = "complete" THEN "driver" ELSE None

\* An activate_secondary without its assertion.
mapping_active_unchecked == TRUE

\* self.mapping.active().
mapping_active == active

\* A boot sequence that also maps once the table has been activated.
boot_may_map_late(pc) == pc \in {"map_fdt", "map_pci", "publish", "init_gic"}

\* The positions of main at which map_range is called: map_fdt_regions and
\* the loop over the PCI roots.
boot_may_map(pc) == pc \in {"map_fdt", "map_pci"}

\* A caller that drops the result of map_range.
map_result_ignored(ret) == None

\* .unwrap() on the result of map_range.
map_result_unwrap(ret) ==
    IF ret = "Ok" THEN None ELSE "called Result::unwrap() on an Err value"

\* main, map_fdt_regions, map_fdt_node_regions, PciRootInfo::map_ranges:
\* idmap.map_range(&region, flags).unwrap().
boot_map_range(r, flags) ==
    /\ bootPanic = None
    /\ ptPanicked = None
    /\ boot_may_map(bootPc)
    /\ bootPc = "map_pci" => flags = DEVICE_ATTRIBUTES
    /\ nmaps < MaxMaps
    /\ IdMap_map_range(r.start, r.end, flags)
    /\ bootPanic' = IF ptPanicked' # None THEN ptPanicked'
                    ELSE map_result_unwrap(ptCall'.ret)
    /\ bootCall' = [fn |-> "map_range", core |-> 0]
    /\ UNCHANGED <<bootPc, PAGETABLE, gicInitVars, cpuidVars>>
    /\ UNCHANGED <<irqVars, bringVars>>
    /\ UNCHANGED devVars

\* main goes on from map_fdt_regions to the PCI roots, and from there to
\* the activation.
boot_next(c) ==
    /\ c = 0
    /\ bootPanic = None
    /\ bootPc \in {"map_fdt", "map_pci"}
    /\ bootPc' = IF bootPc = "map_fdt" THEN "map_pci" ELSE "activate"
    /\ bootCall' = [fn |-> "main", core |-> c]
    /\ UNCHANGED <<PAGETABLE, gicInitVars, bootPanic, cpuidVars>>
    /\ UNCHANGED <<irqVars, bringVars, ptVars>>
    /\ UNCHANGED devVars

\* main: idmap.activate().
boot_activate(c) ==
    /\ c = 0
    /\ bootPanic = None
    /\ bootPc = "activate"
    /\ IdMap_activate
    /\ ttbr0' = [ttbr0 EXCEPT ![c] = "idmap"]
    /\ bootPc' = "publish"
    /\ bootCall' = [fn |-> "activate", core |-> c]
    /\ UNCHANGED <<PAGETABLE, gicInitVars, bootPanic, cpuidVars>>
    /\ UNCHANGED <<irqVars, startVars, gicCpuInit, request>>
    /\ UNCHANGED devVars

\* main: PAGETABLE.call_once(|| idmap).
boot_publish(c) ==
    /\ c = 0
    /\ bootPanic = None
    /\ bootPc = "publish"
    /\ PAGETABLE' = "idmap"
    /\ bootPc' = "init_gic"
    /\ bootCall' = [fn |-> "publish", core |-> c]
    /\ UNCHANGED <<gicInitVars, bootPanic, cpuidVars>>
    /\ UNCHANGED <<irqVars, bringVars, ptVars>>
    /\ UNCHANGED devVars

\* init_gic(fdt) up to the construction of the driver: GIC.call_once, and
\* in its initialiser make_gic(fdt).expect("No GIC found in FDT").  main
\* calls it after publishing the page table; a caller that finds the
\* initialiser running waits for it.
init_gic(c, fdt) ==
    /\ bootPanic = None
    /\ ninits < MaxInits
    /\ c = 0 => bootPc \in {"init_gic", "run"}
    /\ GIC # "running"
    /\ ninits' = ninits + 1
    /\ bootCall' = [fn |-> "init_gic", core |-> c]
    /\ IF call_once_runs(GIC)
       THEN LET g == make_gic(fdt)
            IN  /\ fdtGic' = fdt
                /\ IF g.panic # None
                   THEN /\ bootPanic' = g.panic
                        /\ UNCHANGED <<GIC, gicRunner, gicNew>>
                   ELSE IF ~g.some
                   THEN /\ bootPanic' = "No GIC found in FDT"
                        /\ UNCHANGED <<GIC, gicRunner, gicNew>>
                   ELSE /\ GIC' = "running"
                        /\ gicRunner' = c
                        /\ gicNew' = gicNew + 1
                        /\ UNCHANGED bootPanic
                /\ UNCHANGED bootPc
       ELSE /\ bootPc' = IF c = 0 /\ bootPc = "init_gic" THEN "run" ELSE bootPc
            /\ UNCHANGED <<GIC, gicRunner, gicNew, fdtGic, bootPanic>>
    /\ UNCHANGED <<PAGETABLE, gicSetups, gicTouched, cpuidVars>>
    /\ UNCHANGED <<irqVars, bringVars, ptVars>>
    /\ UNCHANGED devVars

\* The rest of the initialiser of init_gic: gic.setup(0),
\* PlatformImpl::setup_gic(&mut gic), and the driver is stored in GIC.
init_gic_done(c) ==
    /\ bootPanic = None
    /\ GIC = "running"
    /\ gicRunner = c
    /\ GIC' = "complete"
    /\ gicRunner' = NoCore
    /\ gicSetups' = gicSetups + 1
    /\ gicTouched' = TRUE
    /\ gicCpuInit' = [gicCpuInit EXCEPT ![0] = TRUE]
    /\ bootPc' = IF c = 0 /\ bootPc = "init_gic" THEN "run" ELSE bootPc
    /\ bootCall' = [fn |-> "init_gic_done", core |-> c]
    /\ UNCHANGED <<PAGETABLE, gicNew, ninits, fdtGic, bootPanic, cpuidVars>>
    /\ UNCHANGED <<irqVars, startVars, ttbr0, request, ptVars>>
    /\ UNCHANGED devVars

\* secondary_init_gic on the core with MPIDR m: current_cpu_index(),
\* GIC.get().unwrap().lock(), gic.init_cpu(cpu), and the core's own
\* group and priority-mask registers.
secondary_init_gic(m) ==
    /\ m # 0
    /\ bootPanic = None
    /\ bootCall' = [fn |-> "secondary_init_gic", core |-> m]
    /\ LET idx == index_unwrap(mpidr_to_cpu_index(m))
       IN  IF ~FDT \/ idx.panic # None \/ GIC_get = None
           THEN /\ bootPanic' = "called Option::unwrap() on a None value"
                /\ UNCHANGED <<gicCpuInit, gicTouched>>
           ELSE /\ gicCpuInit' = [gicCpuInit EXCEPT ![idx.v] = TRUE]
                /\ gicTouched' = TRUE
                /\ UNCHANGED bootPanic
    /\ UNCHANGED <<bootPc, PAGETABLE, GIC, gicRunner, gicNew, gicSetups, ninits,
                   fdtGic, cpuidVars>>
    /\ UNCHANGED <<irqVars, startVars, ttbr0, request, ptVars>>
    /\ UNCHANGED devVars

\* IdMap::activate_secondary on the core with MPIDR m:
\* assert!(self.mapping.active()), then TTBR0_EL1 of this core points to
\* the table.
activate_secondary(m) ==
    /\ m # 0
    /\ bootPanic = None
    /\ bootCall' = [fn |-> "activate_secondary", core |-> m]
    /\ IF mapping_active
       THEN /\ ttbr0' = [ttbr0 EXCEPT ![m] = "idmap"]
            /\ UNCHANGED bootPanic
       ELSE /\ bootPanic' = "assertion failed: self.mapping.active()"
            /\ UNCHANGED ttbr0
    /\ UNCHANGED <<bootPc, PAGETABLE, gicInitVars, cpuidVars>>
    /\ UNCHANGED <<irqVars, startVars, gicCpuInit, request, ptVars>>
    /\ UNCHANGED devVars

\* main has booted: the page table is published and the GIC initialised.
MainDone ==
    /\ bootPc = "run"
    /\ PAGETABLE = "idmap"
    /\ GIC = "complete"
    /\ gicRunner = NoCore
    /\ gicNew = 1
    /\ gicSetups = 1
    /\ ninits = MaxInits
    /\ gicTouched = TRUE
    /\ fdtGic = ValidFdtGic
    /\ bootCall = NoBootCall
    /\ bootPanic = None

\* The devices while other parts of the kernel are exercised: nobody logs,
\* the UART has received nothing, and no PCI root is being built.
NoUart == [rx |-> 0, read |-> 0]
NoPciRoot == [pc |-> "none", node |-> <<>>, ranges |-> <<>>, mapped |-> 0]
DevIdle ==
    /\ LOGGER = NoCore
    /\ uart = NoUart
    /\ pciRoot = NoPciRoot

BootDone == MainDone /\ CpuidIdle /\ DevIdle

\* main is about to build the page table: the device tree is published,
\* the table is new, and no core has the table or the GIC set up.
InitBoot ==
    /\ InitIrq
    /\ SECONDARY_STACKS = [t \in Targets |-> NoStack]
    /\ nstacks = 0
    /\ slots = <<>>
    /\ storeBuf = [m \in Mpidrs |-> <<>>]
    /\ cpu = [m \in Mpidrs |-> IF m = 0 THEN RunningOn(NoStack, "main", 0) ELSE Off]
    /\ power = [m \in Mpidrs |-> IF m = 0 THEN "on" ELSE "off"]
    /\ psciCalls = {}
    /\ system = "running"
    /\ nstarts = 0
    /\ method = None
    /\ ttbr0 = [m \in Mpidrs |-> "initial"]
    /\ gicCpuInit = [m \in Mpidrs |-> FALSE]
    /\ request = [m \in Mpidrs |-> NoRequest]
    /\ pt = [p \in PageBases |-> Unmapped]
    /\ active = FALSE
    /\ ptCall = NoCall
    /\ nmaps = 0
    /\ ptPanicked = None
    /\ pool \in 1..MaxFrames
    /\ reactivated = FALSE
    /\ bootPc = "map_fdt"
    /\ PAGETABLE = None
    /\ GIC = "incomplete"
    /\ gicRunner = NoCore
    /\ gicNew = 0
    /\ gicSetups = 0
    /\ ninits = 0
    /\ gicTouched = FALSE
    /\ fdtGic = NoFdtGic
    /\ bootCall = NoBootCall
    /\ bootPanic = None
    /\ CpuidIdle
    /\ DevIdle

NextBoot ==
    \/ \E r \in BootRegions, flags \in Attrs : boot_map_range(r, flags)
    \/ \E c \in Cores : boot_next(c)
    \/ \E c \in Cores : boot_activate(c)
    \/ \E c \in Cores : boot_publish(c)
    \/ \E c \in Cores, fdt \in FdtGics : init_gic(c, fdt)
    \/ \E c \in Cores : init_gic_done(c)
    \/ \E m \in Mpidrs : secondary_init_gic(m)
    \/ \E m \in Mpidrs : activate_secondary(m)

SpecBoot == InitBoot /\ [][NextBoot]_vars

\* The boot of a machine whose device tree lists the cores in any order:
\* the boot core, with affinity 0, is at any position of the CPU list.
InitGicIndex ==
    /\ InitIrq
    /\ SECONDARY_STACKS = [t \in Targets |-> NoStack]
    /\ nstacks = 0
    /\ slots = <<>>
    /\ storeBuf = [m \in Mpidrs |-> <<>>]
    /\ cpu = [m \in Mpidrs |-> IF m = 0 THEN RunningOn(NoStack, "main", 0) ELSE Off]
    /\ power = [m \in Mpidrs |-> IF m = 0 THEN "on" ELSE "off"]
    /\ psciCalls = {}
    /\ system = "running"
    /\ nstarts = 0
    /\ method = None
    /\ ttbr0 = [m \in Mpidrs |-> "initial"]
    /\ gicCpuInit = [m \in Mpidrs |-> FALSE]
    /\ request = [m \in Mpidrs |-> NoRequest]
    /\ pt = [p \in PageBases |-> Unmapped]
    /\ active = FALSE
    /\ ptCall = NoCall
    /\ nmaps = 0
    /\ ptPanicked = None
    /\ pool \in 1..MaxFrames
    /\ reactivated = FALSE
    /\ bootPc = "map_fdt"
    /\ PAGETABLE = None
    /\ GIC = "incomplete"
    /\ gicRunner = NoCore
    /\ gicNew = 0
    /\ gicSetups = 0
    /\ ninits = 0
    /\ gicTouched = FALSE
    /\ fdtGic = NoFdtGic
    /\ bootCall = NoBootCall
    /\ bootPanic = None
    /\ fdtCpus \in {l \in CpuLists : \A a \in Affinities :
                                     \E i \in 1..Len(l) : l[i] = a}
    /\ Len(fdtCpus) = Len(AllCpus)
    /\ FDT = TRUE
    /\ firstIndex = [a \in Affinities |-> NoIndex]
    /\ lastIndex = [a \in Affinities |-> NoIndex]
    /\ nindex = MaxIndexCalls
    /\ DevIdle

SpecGicIndex == InitGicIndex /\ [][NextBoot]_vars

\* Cores look their index up in a device tree with any CPU list, before and
\* after main has published it.
InitCpus ==
    /\ InitIrq
    /\ BringupIdle
    /\ PagetableBuilt
    /\ method = None
    /\ MainDone
    /\ DevIdle
    /\ fdtCpus \in CpuLists
    /\ FDT = FALSE
    /\ firstIndex = [a \in Affinities |-> NoIndex]
    /\ lastIndex = [a \in Affinities |-> NoIndex]
    /\ nindex = 0

NextCpus ==
    \/ \E c \in Cores : FDT_call_once(c)
    \/ \E a \in Affinities : current_cpu_index(a)
    \/ \E c \in Cores : irq_enable(c)
    \/ \E c \in Cores : RaiseIrq(c)

SpecCpus == InitCpus /\ [][NextCpus]_vars

NextBringup ==
    \/ \E c \in Mpidrs : start_core_with_stack(c)
    \/ \E c \in Mpidrs : start_cpu(c)
    \/ \E c \in Mpidrs : store_entry(c)
    \/ \E c \in Mpidrs : store_arg(c)
    \/ \E c \in Mpidrs : StoreCompletes(c)
    \/ \E c \in Mpidrs : dsb_st(c)
    \/ \E c \in Mpidrs : cpu_on(c)
    \/ \E c \in Mpidrs : start_core_return(c)
    \/ \E c \in Mpidrs : secondary_entry(c)
    \/ \E c \in Mpidrs : cpu_off(c)
    \/ \E c \in Mpidrs : cpus(c)
    \/ \E c \in Mpidrs : power_off(c)

\* The /psci node of the device tree has method "smc" or "hvc", or there is
\* no method to read.
InitBringup ==
    /\ InitIrq
    /\ BringupIdle
    /\ PagetableBuilt
    /\ BootDone
    /\ method \in {"smc", "hvc", None}

SpecBringup == InitBringup /\ [][NextBringup]_vars

\* The shell specification: cores are started with the start_cpu command
\* only, the one caller of start_core_with_stack (apps/cpus.rs:58), which
\* runs on the boot core.
NextShell ==
    \/ \E c \in Mpidrs : start_cpu(c)
    \/ \E c \in Mpidrs : store_entry(c)
    \/ \E c \in Mpidrs : store_arg(c)
    \/ \E c \in Mpidrs : StoreCompletes(c)
    \/ \E c \in Mpidrs : dsb_st(c)
    \/ \E c \in Mpidrs : cpu_on(c)
    \/ \E c \in Mpidrs : start_core_return(c)
    \/ \E c \in Mpidrs : secondary_entry(c)
    \/ \E c \in Mpidrs : cpu_off(c)
    \/ \E c \in Mpidrs : cpus(c)
    \/ \E c \in Mpidrs : power_off(c)

SpecShell == InitBringup /\ [][NextShell]_vars

(***************************************************************************)
(* The registry specification.                                             *)
(***************************************************************************)
Next ==
    \/ \E c \in Cores : irq_enable(c)
    \/ \E c \in Cores : set_shared_irq_handler(c)
    \/ \E c \in Cores : set_shared_assert(c)
    \/ \E c \in Cores : remove_shared_irq_handler(c)
    \/ \E c \in Cores : set_private_irq_handler(c)
    \/ \E c \in Cores : lock_shared(c)
    \/ \E c \in Cores : set_private_assert(c)
    \/ \E c \in Cores : remove_private_irq_handler(c)
    \/ \E c \in Cores : set_shared_insert(c)
    \/ \E c \in Cores : set_private_insert(c)
    \/ \E c \in Cores : remove_shared_remove(c)
    \/ \E c \in Cores : remove_private_remove(c)
    \/ \E c \in Cores : exception_free_exit(c)
    \/ \E c \in Cores : RaiseIrq(c)
    \/ \E c \in Cores : irq_current(c)
    \/ \E c \in Cores : handle_irq_private(c)
    \/ \E c \in Cores : handle_irq_shared(c)
    \/ \E c \in Cores : handler_runs(c)
    \/ \E c \in Cores : handle_irq_return(c)

\* The registry is exercised on a machine whose secondary cores stay off.
Init ==
    /\ InitIrq
    /\ BringupIdle
    /\ PagetableBuilt
    /\ BootDone
    /\ method = None

Spec == Init /\ [][Next]_vars

(***************************************************************************)
(* The dispatch specification: the handlers the kernel itself registers    *)
(* are in place, and interrupts are raised, dispatched and ended.          *)
(***************************************************************************)
\* IntId::sgi(5), one of the SGIs a secondary core registers a private
\* handler for.
SGI_5 == 5

\* The registrations the kernel makes: the SPI of the model is the console's
\* or the RTC's interrupt (or has no handler yet), and core 1, a secondary
\* core, has or has not registered its SGI handler.
InitDispatch ==
    /\ \E h \in {None, ConsoleHandler, AlarmHandler} :
          SHARED_IRQ_HANDLERS = [EmptyMap EXCEPT ![RTC_IRQ] = h]
    /\ \E h \in {None, SgiHandler} :
          PRIVATE_IRQ_HANDLERS =
             [c \in Cores |-> IF c = 1 THEN [EmptyMap EXCEPT ![SGI_5] = h]
                                       ELSE EmptyMap]
    /\ sharedLock = NoCore
    /\ privateBorrow = [c \in Cores |-> 0]
    /\ daifI = [c \in Cores |-> TRUE]
    /\ thread = [c \in Cores |-> Idle]
    /\ irq = [c \in Cores |-> NoIrq]
    /\ pending = [c \in Cores |-> {}]
    /\ panicked = None
    /\ ncalls = 0
    /\ nirqs = 0
    /\ acks = [i \in IntIds |-> 0]
    /\ eois = [i \in IntIds |-> 0]
    /\ ALARM_FIRED = FALSE
    /\ entered = NoVector
    /\ BringupIdle
    /\ PagetableBuilt
    /\ BootDone
    /\ method = None

NextDispatch ==
    \/ \E c \in Cores : irq_enable(c)
    \/ \E c \in Cores : RaiseIrq(c)
    \/ \E c \in Cores : irq_current(c)
    \/ \E c \in Cores : handle_irq_private(c)
    \/ \E c \in Cores : handle_irq_shared(c)
    \/ \E c \in Cores : handler_runs(c)
    \/ \E c \in Cores : handle_irq_return(c)
    \/ \E c \in Cores : irq_finish(c)
    \/ \E c \in Cores : handle_irq_no_pending(c)
    \/ \E c \in Cores, vector \in FatalVectors : unexpected_exception(c, vector)

SpecDispatch == InitDispatch /\ [][NextDispatch]_vars

(***************************************************************************)
(* The logger specification: the threads of the cores write log records    *)
(* (info! and the other macros of the log crate, which call Logger::log)   *)
(* while interrupts are raised and dispatched.                             *)
(***************************************************************************)
\* Logger::log on the thread of core c: self.console.lock() succeeds once
\* the mutex is free.  The function does not touch the interrupt mask.
log_lock(c) ==
    /\ Running(c, "idle")
    /\ ncalls < MaxCalls
    /\ LOGGER = NoCore
    /\ LOGGER' = c
    /\ thread' = [thread EXCEPT ![c].pc = "log", ![c].op = "Logger::log"]
    /\ ncalls' = ncalls + 1
    /\ UNCHANGED <<SHARED_IRQ_HANDLERS, PRIVATE_IRQ_HANDLERS, sharedLock,
                   privateBorrow, daifI, irq, pending, panicked, nirqs>>
    /\ UNCHANGED <<bringVars, gicVars, ptVars, mainVars, bootPanic, cpuidVars,
                   uart, pciRoot>>

\* Logger::log: the record has been written and the guard is dropped at the
\* end of the writeln! statement.
log_unlock(c) ==
    /\ Running(c, "log")
    /\ LOGGER' = NoCore
    /\ thread' = [thread EXCEPT ![c] = Idle]
    /\ UNCHANGED <<SHARED_IRQ_HANDLERS, PRIVATE_IRQ_HANDLERS, sharedLock,
                   privateBorrow, daifI, irq, pending, panicked, ncalls, nirqs>>
    /\ UNCHANGED <<bringVars, gicVars, ptVars, mainVars, bootPanic, cpuidVars,
                   uart, pciRoot>>

NextLogger ==
    \/ \E c \in Cores : irq_enable(c)
    \/ \E c \in Cores : RaiseIrq(c)
    \/ \E c \in Cores : irq_current(c)
    \/ \E c \in Cores : handle_irq_private(c)
    \/ \E c \in Cores : handle_irq_shared(c)
    \/ \E c \in Cores : handler_runs(c)
    \/ \E c \in Cores : handle_irq_return(c)
    \/ \E c \in Cores : log_lock(c)
    \/ \E c \in Cores : log_unlock(c)

SpecLogger == InitDispatch /\ [][NextLogger]_vars

(***************************************************************************)
(* The console specification: the shell on core 0 reads the console with   *)
(* Console::read while the UART (the 8250 driver, whose interrupt is edge  *)
(* triggered) receives bytes and raises its interrupt.                     *)
(***************************************************************************)
\* The model's SPI stands for the console's interrupt when
\* Console::handle_irq is registered for it.
CONSOLE_IRQ == RTC_IRQ

\* Console::read is called on core c, the shell's core.
console_read(c) ==
    /\ Running(c, "idle")
    /\ c = 0
    /\ ~daifI[c]
    /\ ncalls < MaxCalls
    /\ ncalls' = ncalls + 1
    /\ thread' = [thread EXCEPT ![c].pc = "check", ![c].op = "Console::read"]
    /\ UNCHANGED <<SHARED_IRQ_HANDLERS, PRIVATE_IRQ_HANDLERS, sharedLock,
                   privateBorrow, daifI, irq, pending, panicked, nirqs>>
    /\ UNCHANGED <<bringVars, gicVars, ptVars, mainVars, bootPanic, cpuidVars,
                   LOGGER, pciRoot>>
    /\ UNCHANGED uart

\* Console::read, the body of the loop up to wait_for_irq: inside
\* exception_free the console is locked and asked read_ready(); with a byte
\* waiting the byte is read and the function returns, otherwise the lock
\* is released, the interrupt mask is restored and the loop goes on to
\* wait_for_irq.
console_read_check(c) ==
    /\ Running(c, "check")
    /\ IF uart.rx > 0
       THEN /\ uart' = [rx |-> uart.rx - 1, read |-> uart.read + 1]
            /\ thread' = [thread EXCEPT ![c] = Idle]
       ELSE /\ thread' = [thread EXCEPT ![c].pc = "wfi"]
            /\ UNCHANGED uart
    /\ UNCHANGED <<SHARED_IRQ_HANDLERS, PRIVATE_IRQ_HANDLERS, sharedLock,
                   privateBorrow, daifI, irq, pending, panicked, ncalls, nirqs>>
    /\ UNCHANGED <<bringVars, gicVars, ptVars, mainVars, bootPanic, cpuidVars,
                   LOGGER, pciRoot>>

\* Uart::wait_for_irq: wfi() is executed.  With an interrupt pending at the
\* core the instruction completes at once; otherwise the core sleeps.
wait_for_irq(c) ==
    /\ Running(c, "wfi")
    /\ thread' = [thread EXCEPT ![c].pc =
                     IF pending[c] # {} THEN "check" ELSE "sleep"]
    /\ UNCHANGED <<SHARED_IRQ_HANDLERS, PRIVATE_IRQ_HANDLERS, sharedLock,
                   privateBorrow, daifI, irq, pending, panicked, ncalls, nirqs>>
    /\ UNCHANGED <<bringVars, gicVars, ptVars, bootVars>>

\* An interrupt becomes pending at a core that sleeps in wfi: the
\* instruction completes and Console::read goes round its loop.
wfi_wakes(c) ==
    /\ Running(c, "sleep")
    /\ pending[c] # {}
    /\ thread' = [thread EXCEPT ![c].pc = "check"]
    /\ UNCHANGED <<SHARED_IRQ_HANDLERS, PRIVATE_IRQ_HANDLERS, sharedLock,
                   privateBorrow, daifI, irq, pending, panicked, ncalls, nirqs>>
    /\ UNCHANGED <<bringVars, gicVars, ptVars, bootVars>>

\* The UART receives a byte into its empty receive register and raises its
\* interrupt line: the edge makes the console's interrupt pending at the
\* shell's core.  The line stays high until the byte is read.
uart_receive(c) ==
    /\ panicked = None
    /\ c = 0
    /\ nirqs < MaxIrqs
    /\ uart.rx = 0
    /\ uart' = [uart EXCEPT !.rx = 1]
    /\ pending' = [pending EXCEPT ![c] = @ \cup {CONSOLE_IRQ}]
    /\ nirqs' = nirqs + 1
    /\ UNCHANGED <<SHARED_IRQ_HANDLERS, PRIVATE_IRQ_HANDLERS, sharedLock,
                   privateBorrow, daifI, thread, irq, panicked, ncalls>>
    /\ UNCHANGED <<bringVars, gicVars, ptVars, mainVars, bootPanic, cpuidVars,
                   LOGGER, pciRoot>>

\* The shell runs on core 0 with IRQs unmasked and Console::handle_irq
\* registered for the console's interrupt; core 1 is a secondary core.
InitConsole ==
    /\ SHARED_IRQ_HANDLERS = [EmptyMap EXCEPT ![CONSOLE_IRQ] = ConsoleHandler]
    /\ \E h \in {None, SgiHandler} :
          PRIVATE_IRQ_HANDLERS =
             [c \in Cores |-> IF c = 1 THEN [EmptyMap EXCEPT ![SGI_5] = h]
                                       ELSE EmptyMap]
    /\ sharedLock = NoCore
    /\ privateBorrow = [c \in Cores |-> 0]
    /\ daifI \in [Cores -> BOOLEAN]
    /\ ~daifI[0]
    /\ thread = [c \in Cores |-> Idle]
    /\ irq = [c \in Cores |-> NoIrq]
    /\ pending = [c \in Cores |-> {}]
    /\ panicked = None
    /\ ncalls = 0
    /\ nirqs = 0
    /\ acks = [i \in IntIds |-> 0]
    /\ eois = [i \in IntIds |-> 0]
    /\ ALARM_FIRED = FALSE
    /\ entered = NoVector
    /\ BringupIdle
    /\ PagetableBuilt
    /\ BootDone
    /\ method = None

\* What a core does by itself: the steps of Console::read and of the
\* dispatch of an interrupt.
ConsoleCoreStep(c) ==
    \/ console_read_check(c)
    \/ wait_for_irq(c)
    \/ wfi_wakes(c)
    \/ irq_current(c)
    \/ handle_irq_private(c)
    \/ handle_irq_shared(c)
    \/ handler_runs(c)
    \/ handle_irq_return(c)

NextConsole ==
    \/ \E c \in Cores : console_read(c)
    \/ \E c \in Cores : console_read_check(c)
    \/ \E c \in Cores : wait_for_irq(c)
    \/ \E c \in Cores : wfi_wakes(c)
    \/ \E c \in Cores : uart_receive(c)
    \/ \E c \in Cores : irq_current(c)
    \/ \E c \in Cores : handle_irq_private(c)
    \/ \E c \in Cores : handle_irq_shared(c)
    \/ \E c \in Cores : handler_runs(c)
    \/ \E c \in Cores : handle_irq_return(c)

\* A core that can execute its next instruction, or take a pending and
\* unmasked interrupt, does so: weak fairness of each core's steps.  The
\* UART is under no obligation to receive anything.
SpecConsole ==
    InitConsole /\ [][NextConsole]_vars /\ \A c \in Cores : WF_vars(ConsoleCoreStep(c))

\* Dispatch with interrupts already pending when a core unmasks IRQs: every
\* core has a private handler for the SGI and the shared table has one for
\* the RTC interrupt; any set of interrupts became pending on each core
\* while it ran with IRQs masked.
InitNest ==
    /\ \E h \in {ConsoleHandler, AlarmHandler} :
          SHARED_IRQ_HANDLERS = [EmptyMap EXCEPT ![RTC_IRQ] = h]
    /\ PRIVATE_IRQ_HANDLERS =
          [c \in Cores |-> [EmptyMap EXCEPT ![SGI_5] = SgiHandler]]
    /\ sharedLock = NoCore
    /\ privateBorrow = [c \in Cores |-> 0]
    /\ daifI = [c \in Cores |-> TRUE]
    /\ thread = [c \in Cores |-> Idle]
    /\ irq = [c \in Cores |-> NoIrq]
    /\ pending \in [Cores -> SUBSET IntIds]
    /\ \A i \in IntIds :
          i >= 32 => Cardinality({c \in Cores : i \in pending[c]}) <= 1
    /\ panicked = None
    /\ ncalls = 0
    /\ nirqs = 0
    /\ acks = [i \in IntIds |-> 0]
    /\ eois = [i \in IntIds |-> 0]
    /\ ALARM_FIRED = FALSE
    /\ entered = NoVector
    /\ BringupIdle
    /\ PagetableBuilt
    /\ BootDone
    /\ method = None

SpecNest == InitNest /\ [][NextDispatch]_vars

(***************************************************************************)
(* The secondary-core specification: what secondary_entry of apps/cpus.rs  *)
(* does with interrupts on core 1, from irq_enable to cpu_off, while the   *)
(* shell on core 0 sends SGIs.                                             *)
(***************************************************************************)
\* secondary_entry: wfi() returns.  The instruction completes when an
\* interrupt has woken the core, and the architecture lets it complete at
\* any other time too.  An interrupt that is pending and unmasked is taken
\* before the thread's next instruction.
secondary_wfi(c) ==
    /\ Running(c, "wfi")
    /\ daifI[c] \/ pending[c] = {}
    /\ thread' = [thread EXCEPT ![c].pc = "teardown"]
    /\ UNCHANGED <<SHARED_IRQ_HANDLERS, PRIVATE_IRQ_HANDLERS, sharedLock,
                   privateBorrow, daifI, irq, pending, panicked, ncalls, nirqs>>
    /\ UNCHANGED <<bringVars, gicVars, ptVars, bootVars>>

\* secondary_entry: the loop `for sgi in 0..IntId::SGI_COUNT` calls
\* remove_private_irq_handler(IntId::sgi(sgi)); the model follows the call
\* for SGI 5.  IRQs are unmasked before and after each call.
secondary_teardown(c) ==
    /\ Running(c, "teardown")
    /\ daifI[c] \/ pending[c] = {}
    /\ thread' = [thread EXCEPT ![c] =
          [pc |-> "remove", op |-> "remove_private_irq_handler", intid |-> SGI_5,
           handler |-> None, saved |-> daifI[c], ret |-> None]]
    /\ daifI' = exception_free_mask(c)
    /\ IF privateBorrow[c] # 0
       THEN panicked' = "already borrowed" /\ UNCHANGED privateBorrow
       ELSE privateBorrow' = borrow_mut(c) /\ UNCHANGED panicked
    /\ UNCHANGED <<SHARED_IRQ_HANDLERS, PRIVATE_IRQ_HANDLERS, sharedLock,
                   irq, pending, ncalls, nirqs>>
    /\ UNCHANGED <<bringVars, gicVars, ptVars, bootVars>>

\* secondary_entry: psci::cpu_off() after the handlers have been removed; a
\* core that is off takes no interrupt.
secondary_cpu_off(c) ==
    /\ Running(c, "idle")
    /\ c = 1
    /\ ~daifI[c]
    /\ pending[c] = {}
    /\ thread' = [thread EXCEPT ![c].pc = "off"]
    /\ daifI' = [daifI EXCEPT ![c] = TRUE]
    /\ UNCHANGED <<SHARED_IRQ_HANDLERS, PRIVATE_IRQ_HANDLERS, sharedLock,
                   privateBorrow, irq, pending, panicked, ncalls, nirqs>>
    /\ UNCHANGED <<bringVars, gicVars, ptVars, bootVars>>

\* Core 1 has registered secondary_irq_handler for its SGIs and has called
\* irq_enable; it is about to execute wfi.  Core 0 runs the shell, where
\* the console's or the RTC's handler may be registered.
InitSecondary ==
    /\ \E h \in {None, ConsoleHandler, AlarmHandler} :
          SHARED_IRQ_HANDLERS = [EmptyMap EXCEPT ![RTC_IRQ] = h]
    /\ PRIVATE_IRQ_HANDLERS =
          [c \in Cores |-> IF c = 1 THEN [EmptyMap EXCEPT ![SGI_5] = SgiHandler]
                                    ELSE EmptyMap]
    /\ sharedLock = NoCore
    /\ privateBorrow = [c \in Cores |-> 0]
    /\ daifI \in [Cores -> BOOLEAN]
    /\ ~daifI[1]
    /\ thread = [c \in Cores |-> IF c = 1 THEN [Idle EXCEPT !.pc = "wfi"] ELSE Idle]
    /\ irq = [c \in Cores |-> NoIrq]
    /\ pending = [c \in Cores |-> {}]
    /\ panicked = None
    /\ ncalls = 0
    /\ nirqs = 0
    /\ acks = [i \in IntIds |-> 0]
    /\ eois = [i \in IntIds |-> 0]
    /\ ALARM_FIRED = FALSE
    /\ entered = NoVector
    /\ BringupIdle
    /\ PagetableBuilt
    /\ BootDone
    /\ method = None

NextSecondary ==
    \/ \E c \in Cores : RaiseIrq(c)
    \/ \E c \in Cores : irq_current(c)
    \/ \E c \in Cores : handle_irq_private(c)
    \/ \E c \in Cores : handle_irq_shared(c)
    \/ \E c \in Cores : handler_runs(c)
    \/ \E c \in Cores : handle_irq_return(c)
    \/ \E c \in Cores : secondary_wfi(c)
    \/ \E c \in Cores : secondary_teardown(c)
    \/ \E c \in Cores : remove_private_remove(c)
    \/ \E c \in Cores : exception_free_exit(c)
    \/ \E c \in Cores : secondary_cpu_off(c)

SpecSecondary == InitSecondary /\ [][NextSecondary]_vars

(***************************************************************************)
(* The page table specification: a new IdMap is filled by map_range calls  *)
(* and activated.                                                          *)
(***************************************************************************)
NextPagetable ==
    \/ \E start \in Addrs, end \in Addrs, flags \in Attrs :
          map_range(start, end, flags)
    \/ \E c \in Cores : activate(c)

InitPagetable ==
    /\ InitIrq
    /\ BringupIdle
    /\ PagetableNew
    /\ BootDone
    /\ method = None

SpecPagetable == InitPagetable /\ [][NextPagetable]_vars

(***************************************************************************)
(* The PCI specification: main finds the PCI root in the device tree and   *)
(* maps its memory ranges into the new page table (src/src/pci.rs).        *)
(***************************************************************************)
\* Number of entries of the "ranges" property of the PCI node.
MaxRanges == 2

\* PciMemoryFlags: the space code, bits 24 and 25 of the first cell of a
\* range, for the spaces a host bridge lists.
PciFlags == {1, 2, 3}

\* PciMemoryFlags::range_type: PciRangeType::from((flags & 0x0300_0000) >> 24).
range_type(flags) ==
    CASE flags % 4 = 0 -> "ConfigurationSpace"
      [] flags % 4 = 1 -> "IoSpace"
      [] flags % 4 = 2 -> "Memory32"
      [] flags % 4 = 3 -> "Memory64"

\* The ranges a device tree can list: they start at the bottom of the
\* address space, just below the end of the page table, at its end or
\* beyond it, and are half a page, a page or a whole table long.
PciRanges ==
    [cpu_physical : {0, IdMap_size - PAGE_SIZE \div 2, IdMap_size,
                     IdMap_size + PAGE_SIZE},
     size : {PAGE_SIZE \div 2, PAGE_SIZE, IdMap_size},
     flags : PciFlags]

RECURSIVE PciNodesUpTo(_)
PciNodesUpTo(n) ==
    IF n = 0 THEN {<<>>}
    ELSE PciNodesUpTo(n - 1) \cup
         {Append(q, r) : q \in {x \in PciNodesUpTo(n - 1) : Len(x) = n - 1},
                         r \in PciRanges}
PciNodes == PciNodesUpTo(MaxRanges)

\* core::cmp::min.
min(a, b) == IF a <= b THEN a ELSE b

\* matches!(range.flags.range_type(), Memory32 | Memory64).
is_memory(range) == range_type(range.flags) \in {"Memory32", "Memory64"}

\* A variant of trimmed_size that keeps the size of the device tree.
trimmed_size_untrimmed(range, bar_range_limit) == range.size

\* for_fdt_node: min(range.size, bar_range_limit - range.cpu_physical).
trimmed_size(range, bar_range_limit) ==
    min(range.size, bar_range_limit - range.cpu_physical)

\* PciRootInfo::for_fdt_node: the ranges it keeps of those of the node.  A
\* memory range that starts at or above the limit is skipped, any other
\* memory range is trimmed, and ranges of other spaces are kept as they are.
RECURSIVE for_fdt_node(_, _)
for_fdt_node(node, bar_range_limit) ==
    IF node = <<>> THEN <<>>
    ELSE LET range == Head(node)
             rest == for_fdt_node(Tail(node), bar_range_limit)
         IN  IF is_memory(range)
             THEN IF range.cpu_physical >= bar_range_limit
                  THEN rest
                  ELSE <<[range EXCEPT !.size = trimmed_size(range, bar_range_limit)]>>
                       \o rest
             ELSE <<range>> \o rest

\* PciRange::memory_region: the arguments of MemoryRegion::new.
memory_region(range) ==
    [start |-> range.cpu_physical, end |-> range.cpu_physical + range.size]

\* main: find_pci_roots(&fdt, idmap.size()), which builds the PciRootInfo of
\* the node with for_fdt_node.
find_pci_roots(c) ==
    /\ c = 0
    /\ bootPanic = None
    /\ pciRoot.pc = "none"
    /\ pciRoot' = [pciRoot EXCEPT !.pc = "found",
                                  !.ranges = for_fdt_node(pciRoot.node, IdMap_size)]
    /\ UNCHANGED <<irqVars, bringVars, ptVars>>
    /\ UNCHANGED <<mainVars, bootPanic, cpuidVars, LOGGER, uart>>

\* PciRootInfo::map_ranges, one round of its loop: a memory range is mapped
\* with idmap.map_range(&range.memory_region(), DEVICE_ATTRIBUTES).unwrap(),
\* a range of another space is passed over.
map_ranges(c) ==
    /\ c = 0
    /\ bootPanic = None
    /\ ptPanicked = None
    /\ pciRoot.pc = "found"
    /\ pciRoot.mapped < Len(pciRoot.ranges)
    /\ LET range == pciRoot.ranges[pciRoot.mapped + 1]
       IN  IF is_memory(range)
           THEN /\ nmaps < MaxMaps
                /\ IdMap_map_range(memory_region(range).start,
                                   memory_region(range).end, DEVICE_ATTRIBUTES)
                /\ bootPanic' = IF ptPanicked' # None THEN ptPanicked'
                                ELSE map_result_unwrap(ptCall'.ret)
           ELSE UNCHANGED <<ptVars, bootPanic>>
    /\ pciRoot' = [pciRoot EXCEPT !.mapped = @ + 1]
    /\ UNCHANGED <<irqVars, bringVars>>
    /\ UNCHANGED <<mainVars, cpuidVars, LOGGER, uart>>

\* main has made a new IdMap and is about to look for the PCI roots; the
\* device tree's PCI node lists any ranges.
InitPci ==
    /\ InitIrq
    /\ BringupIdle
    /\ PagetableNew
    /\ MainDone
    /\ CpuidIdle
    /\ LOGGER = NoCore
    /\ uart = NoUart
    /\ \E node \in PciNodes : pciRoot = [NoPciRoot EXCEPT !.node = node]
    /\ method = None

NextPci ==
    \/ \E c \in Cores : find_pci_roots(c)
    \/ \E c \in Cores : map_ranges(c)

SpecPci == InitPci /\ [][NextPci]_vars

(***************************************************************************)
(* Claims about the handler registry and dispatch (Spec).                  *)
(***************************************************************************)

\* C1: while no call has panicked, no interrupt id is present both in the
\* shared handler table and in the private handler table of any core.
C1_RegistryExclusivity ==
    panicked = None =>
       \A c \in Cores, intid \in IntIds :
          ~(SHARED_IRQ_HANDLERS[intid] # None /\ PRIVATE_IRQ_HANDLERS[c][intid] # None)

\* Core c takes a step of its own thread, or the system panics.
ThreadStep(c) == thread'[c] # thread[c] \/ panicked' # panicked

\* C2: a registration that conflicts with the other scope panics at the
\* assert of the registration call and changes neither table: set_shared
\* with the id in the calling core's private table, set_private with the id
\* in the shared table; a conflicting call never gets past its assert.
C2_ConflictPanicsUnchanged ==
    /\ [](\A c \in Cores :
            (thread[c].op = "set_shared_irq_handler" /\ thread[c].pc \in {"lock", "insert"})
               => PRIVATE_IRQ_HANDLERS[c][thread[c].intid] = None)
    /\ [][\A c \in Cores :
            /\ ( /\ thread[c].pc = "assert"
                 /\ thread[c].op = "set_shared_irq_handler"
                 /\ PRIVATE_IRQ_HANDLERS[c][thread[c].intid] # None
                 /\ ThreadStep(c) )
               => /\ panicked' # None
                  /\ UNCHANGED <<SHARED_IRQ_HANDLERS, PRIVATE_IRQ_HANDLERS>>
            /\ ( /\ thread[c].pc = "assert"
                 /\ thread[c].op = "set_private_irq_handler"
                 /\ SHARED_IRQ_HANDLERS[thread[c].intid] # None
                 /\ ThreadStep(c) )
               => /\ panicked' # None
                  /\ UNCHANGED <<SHARED_IRQ_HANDLERS, PRIVATE_IRQ_HANDLERS>>
       ]_vars

\* C2 witness: set_shared_irq_handler has panicked on a core whose private
\* table holds the id, and the private entry is still there.
C2_Witness ==
    /\ panicked = "set_shared_irq_handler: Private IRQ handler already exists"
    /\ \E c \in Cores :
          /\ thread[c].pc = "assert"
          /\ thread[c].op = "set_shared_irq_handler"
          /\ PRIVATE_IRQ_HANDLERS[c][thread[c].intid] # None
          /\ SHARED_IRQ_HANDLERS[thread[c].intid] = None

C4_NoGuardAcrossHandler ==
    \A c \in Cores :
       irq[c].pc = "handler" => (sharedLock # c /\ privateBorrow[c] = 0)

\* C5: the shared-registry lock is held, and a private table is borrowed,
\* only with IRQs masked on the holding core; an IRQ dispatch on a core
\* never starts while code on that core holds the lock or a borrow.
C5_GuardsOnlyMasked ==
    \A c \in Cores :
       /\ (sharedLock = c \/ privateBorrow[c] # 0) => daifI[c]
       /\ irq[c].pc \in {"ack", "lock"} => (sharedLock # c /\ privateBorrow[c] = 0)
       /\ irq[c].pc # "none" => thread[c].pc = "idle"

\* C5 witness: a core whose thread had IRQs enabled holds the shared lock
\* inside exception_free while an interrupt is pending on it.
C5_Witness ==
    \E c \in Cores :
       /\ sharedLock = c
       /\ thread[c].pc \in {"insert", "remove", "assert"}
       /\ ~thread[c].saved
       /\ pending[c] # {}

\* C6: a stack that a started core may be using (the core it was handed to
\* is pending or running) is not written by another core: no store of
\* another core to that stack's entry/argument slots completes until the
\* core is off again.
C6_StackNotWrittenWhileInUse ==
    [][\A c \in Mpidrs :
          (storeBuf[c] # <<>> /\ storeBuf'[c] = Tail(storeBuf[c]))
          => ~ \E m \in Mpidrs \ {c} :
                  power[m] # "off" /\ cpu[m].sp = Head(storeBuf[c]).stack]_vars

\* C7: when start_core issues CPU_ON, its stores of the entry point and the
\* argument have completed (none is still in flight and both slots have been
\* written; with a single call in the system they hold exactly that call's
\* values), so a started core never loads a slot that has not been written.
C7_StoresBeforeCpuOn ==
    \A c \in Mpidrs :
        /\ cpu[c].pc = "cpu_on" =>
              /\ storeBuf[c] = <<>>
              /\ slots[cpu[c].stack].entry # Uninit.entry
              /\ slots[cpu[c].stack].arg # Uninit.arg
              /\ nstarts = 1 => slots[cpu[c].stack] =
                                   [entry |-> cpu[c].entry, arg |-> cpu[c].arg]
        /\ cpu[c].pc = "boot" =>
              /\ slots[cpu[c].sp].entry # Uninit.entry
              /\ slots[cpu[c].sp].arg # Uninit.arg
        /\ cpu[c].pc = "run" =>
              (cpu[c].rentry # Uninit.entry /\ cpu[c].rarg # Uninit.arg)

\* A started core has loaded its entry point and argument and runs.
C7_Witness ==
    \E m \in Mpidrs \ {0} :
        /\ cpu[m].pc = "run"
        /\ power[m] = "on"
        /\ cpu[m].rentry \in {"e1", "e2"}
        /\ cpu[m].rarg \in {42, 7}

\* C8: every call of start_core_with_stack for an affinity id uses the stack
\* of that id's map entry, and an entry of the map, once made, is never
\* replaced or removed.
C8_StackIdempotence ==
    /\ [](\A c \in Mpidrs :
            cpu[c].pc \in {"store_entry", "store_arg", "dsb", "cpu_on", "ret"} =>
                /\ cpu[c].stack # NoStack
                /\ cpu[c].stack = SECONDARY_STACKS[cpu[c].target])
    /\ [][\A t \in Targets :
            SECONDARY_STACKS[t] # NoStack =>
                SECONDARY_STACKS'[t] = SECONDARY_STACKS[t]]_vars

\* A second call for the id of the only stack there is: it is about to
\* write the slots that an earlier call has written.
C8_Witness ==
    \E c \in Mpidrs :
        /\ cpu[c].pc = "store_entry"
        /\ nstacks = 1
        /\ nstarts = 2
        /\ slots[cpu[c].stack].entry # Uninit.entry
        /\ slots[cpu[c].stack].arg # Uninit.arg

\* C9: when CPU_ON returns an error status, start_core_with_stack comes to
\* its return with Err of that status (and with Ok on success) rather than
\* with a panic, and the stack of the affinity id is still in the map.
C9_FirmwareErrorReturned ==
    \A c \in Mpidrs :
        cpu[c].pc = "ret" =>
            /\ cpu[c].result = IF cpu[c].status = "Success"
                               THEN [ok |-> TRUE, err |-> None]
                               ELSE [ok |-> FALSE, err |-> cpu[c].status]
            /\ cpu[c].status \in PsciErrors \cup {"Success"}
            /\ SECONDARY_STACKS[cpu[c].target] = cpu[c].stack
            /\ cpu[c].stack # NoStack

\* A call returns a firmware error while the stack stays in the map.
C9_Witness ==
    \E c \in Mpidrs :
        /\ cpu[c].pc = "ret"
        /\ cpu[c].status \in PsciErrors
        /\ cpu[c].result = [ok |-> FALSE, err |-> cpu[c].status]
        /\ SECONDARY_STACKS[cpu[c].target] = cpu[c].stack

\* C10: every PSCI call the kernel has issued used SMC if the /psci method
\* property is "smc" and HVC otherwise.
C10_ConduitUniform ==
    \A call \in psciCalls :
        call.conduit = IF method = "smc" THEN "Smc" ELSE "Hvc"

C12_InvokesRequestedEntry ==
    \A m \in Mpidrs \ {0} :
        cpu[m].pc \notin {"off", "boot"} =>
            [entry |-> cpu[m].rentry, arg |-> cpu[m].rarg] = request[m]

\* C13: a secondary core whose CPU_OFF call has returned is in the halt
\* loop: it runs no further code.
C13_HaltAfterCpuOffReturns ==
    \A m \in Mpidrs \ {0} :
        cpu[m].offStatus # None => cpu[m].pc = "halt"

\* C14: a set_shared_irq_handler (set_private_irq_handler) call that gets to
\* its insert returns the handler its scope had for the id (None if it had
\* none), and the insert makes that scope map the id to the new handler and
\* changes no other id and nothing in the other scope.
C14_Upsert ==
    [][\A c \in Cores :
          (thread[c].pc = "insert" /\ thread'[c].pc = "exit") =>
              /\ panicked' = None
              /\ IF thread[c].op = "set_shared_irq_handler"
                 THEN /\ thread'[c].ret = SHARED_IRQ_HANDLERS[thread[c].intid]
                      /\ SHARED_IRQ_HANDLERS' =
                            [SHARED_IRQ_HANDLERS EXCEPT
                                ![thread[c].intid] = thread[c].handler]
                      /\ PRIVATE_IRQ_HANDLERS' = PRIVATE_IRQ_HANDLERS
                 ELSE /\ thread'[c].ret = PRIVATE_IRQ_HANDLERS[c][thread[c].intid]
                      /\ PRIVATE_IRQ_HANDLERS' =
                            [PRIVATE_IRQ_HANDLERS EXCEPT
                                ![c][thread[c].intid] = thread[c].handler]
                      /\ SHARED_IRQ_HANDLERS' = SHARED_IRQ_HANDLERS]_vars

\* A set call has replaced a different handler and returns the old one.
C14_Witness ==
    \E c \in Cores :
        /\ thread[c].pc = "exit"
        /\ thread[c].op \in {"set_shared_irq_handler", "set_private_irq_handler"}
        /\ thread[c].ret \in Handlers \ {thread[c].handler}
        /\ IF thread[c].op = "set_shared_irq_handler"
           THEN SHARED_IRQ_HANDLERS[thread[c].intid] = thread[c].handler
           ELSE PRIVATE_IRQ_HANDLERS[c][thread[c].intid] = thread[c].handler

C16_UnregisteredIrqPanics ==
    /\ [](\A c \in Cores :
            /\ (irq[c].pc = "panic" /\ panicked = "Unexpected IRQ with no handler")
                  => /\ irq[c].invoked = <<>>
                     /\ PRIVATE_IRQ_HANDLERS[c][irq[c].intid] = None
                     /\ SHARED_IRQ_HANDLERS[irq[c].intid] = None
            /\ irq[c].pc \in {"handler", "handled"}
                  => (PRIVATE_IRQ_HANDLERS[c][irq[c].intid] # None
                      \/ SHARED_IRQ_HANDLERS[irq[c].intid] # None))
    /\ [][\A c \in Cores :
            (/\ irq[c].pc = "lock"
             /\ irq'[c] # irq[c]
             /\ PRIVATE_IRQ_HANDLERS[c][irq[c].intid] = None
             /\ SHARED_IRQ_HANDLERS[irq[c].intid] = None)
            => /\ panicked' = "Unexpected IRQ with no handler"
               /\ irq'[c].pc = "panic"
               /\ irq'[c].invoked = <<>>
               /\ eois' = eois]_vars

\* An acknowledged interrupt without a handler has stopped the system.
C16_Witness ==
    \E c \in Cores :
        /\ irq[c].pc = "panic"
        /\ panicked = "Unexpected IRQ with no handler"
        /\ acks[irq[c].intid] = 1
        /\ irq[c].invoked = <<>>

\* C17: handle_irq entered while the GIC has nothing pending for the core
\* panics with "No pending interrupt": nothing is acknowledged, no table is
\* locked or borrowed, and no handler is invoked.
C17_NoPendingPanics ==
    [][\A c \in Cores :
          (irq[c].pc = "none" /\ irq'[c].pc # "none" /\ pending[c] = {})
          => /\ panicked' = "No pending interrupt"
             /\ irq'[c].pc = "panic"
             /\ irq'[c].invoked = <<>>
             /\ sharedLock' = sharedLock
             /\ privateBorrow' = privateBorrow
             /\ acks' = acks
             /\ eois' = eois]_vars

\* handle_irq has panicked for want of a pending interrupt although a
\* handler is registered.
C17_Witness ==
    \E c \in Cores :
        /\ panicked = "No pending interrupt"
        /\ irq[c].pc = "panic"
        /\ irq[c].invoked = <<>>
        /\ SHARED_IRQ_HANDLERS[RTC_IRQ] # None

\* C18: a handle_irq call acknowledges exactly one interrupt, at its start,
\* and no step of the dispatcher writes an end-of-interrupt: an
\* end-of-interrupt is written only by the body of a handler or by
\* irq_finish, and never for an id more often than that id has been
\* acknowledged.
C18_DispatcherNeverCompletes ==
    /\ [](\A i \in IntIds : eois[i] <= acks[i])
    /\ [][/\ \A c \in Cores :
               (irq[c].pc = "ack" /\ irq'[c].pc # "ack") =>
                   \E i \in pending[c] :
                       /\ pending' = [pending EXCEPT ![c] = @ \ {i}]
                       /\ acks' = [acks EXCEPT ![i] = @ + 1]
          /\ acks' # acks =>
               \E c \in Cores : irq[c].pc = "ack" /\ pending'[c] # pending[c]
          /\ eois' # eois =>
               \/ \E c \in Cores : irq[c].pc = "handler" /\ irq'[c].pc = "handled"
               \/ (ALARM_FIRED /\ ~ALARM_FIRED' /\ irq' = irq)]_vars

\* The RTC interrupt was acknowledged by a dispatch, its handler has run,
\* and irq_finish has ended it.
C18_Witness ==
    /\ SHARED_IRQ_HANDLERS[RTC_IRQ] = AlarmHandler
    /\ acks[RTC_IRQ] = 1
    /\ eois[RTC_IRQ] = 1
    /\ ~ALARM_FIRED
    /\ \A c \in Cores : irq[c].pc = "none"

(***************************************************************************)
(* Claims about the page table (SpecPagetable).                            *)
(***************************************************************************)
\* C19: identity invariant.  The physical base IdMap::map_range hands to
\* the mapper is the region's virtual start, and once map_range(r, attrs)
\* has returned Ok every address a of r translates to a, then and ever
\* after; no page of the table translates to anything but itself.
C19_IdentityInvariant ==
    /\ [](\A p \in PageBases : pt[p] # Unmapped => pt[p].pa = p)
    /\ [](ptCall.ret = "Ok" => ptCall.pa = MemoryRegion_new(ptCall.start, ptCall.end).start)
    /\ [][/\ (nmaps' = nmaps + 1 /\ ptCall'.ret = "Ok") =>
               \A a \in Addrs :
                   (/\ MemoryRegion_new(ptCall'.start, ptCall'.end).start <= a
                    /\ a < MemoryRegion_new(ptCall'.start, ptCall'.end).end)
                   => translate(a)' = a
          /\ \A a \in Addrs : translate(a) = a => translate(a)' = a]_vars

\* A region of two pages that does not start at address 0 was mapped, the
\* table is active, and an address in the middle of its second page
\* translates to itself.
C19_Witness ==
    /\ active
    /\ ptCall.ret = "Ok"
    /\ ptCall.start = PAGE_SIZE
    /\ ptCall.end = 3 * PAGE_SIZE
    /\ translate(2 * PAGE_SIZE + PAGE_SIZE \div 2) = 2 * PAGE_SIZE + PAGE_SIZE \div 2

\* C20: overlap rejection.  After map_range([0x1000,0x2000), A) returned
\* Ok, map_range([0x1800,0x2800), B) with B # A returns an error and leaves
\* every descriptor of the table as it was.
C20_OverlapRejected ==
    [][(/\ ptCall = [start |-> PAGE_SIZE, end |-> 2 * PAGE_SIZE, pa |-> PAGE_SIZE,
                     flags |-> ptCall.flags, ret |-> "Ok"]
        /\ nmaps' = nmaps + 1
        /\ ptCall'.start = PAGE_SIZE + PAGE_SIZE \div 2
        /\ ptCall'.end = 2 * PAGE_SIZE + PAGE_SIZE \div 2
        /\ ptCall'.flags # ptCall.flags)
       => (ptCall'.ret # "Ok" /\ pt' = pt)]_vars

(***************************************************************************)
(* Claims about boot (SpecBoot, SpecPagetable).                            *)
(***************************************************************************)
\* C21: a boot-time map_range call that does not return Ok (an error, or
\* the page allocator running out of frames) panics; after a panic the
\* table is never activated, so the table is active only if every
\* boot-time mapping succeeded.
C21_MappingFailureAbortsBoot ==
    /\ [](ptCall.ret \notin {None, "Ok"} => (bootPanic # None /\ ~active))
    /\ [][/\ (nmaps' = nmaps + 1 /\ ptCall'.ret # "Ok") => bootPanic' # None
          /\ bootPanic # None => (active' = active /\ bootPc' = bootPc)]_vars

\* The second mapping of the boot exhausted the page allocator and boot
\* has panicked with the table not activated.
C21_Witness ==
    /\ nmaps = 2
    /\ ptCall.ret = "panic"
    /\ bootPanic = "Failed to allocate page for pagetable"
    /\ ~active
    /\ bootPc \in {"map_fdt", "map_pci"}

\* C22: every map_range call of the boot is made by main before the table
\* is activated; the table is published in PAGETABLE only once it is active,
\* and after that no step maps anything or changes a descriptor.
C22_BuildBeforeActivation ==
    /\ [](PAGETABLE # None => active)
    /\ [][(nmaps' # nmaps \/ pt' # pt \/ pool' # pool) =>
             (~active /\ PAGETABLE = None /\ bootCall'.core = 0)]_vars

\* main has mapped regions, activated and published the table, and runs.
C22_Witness ==
    /\ bootPc = "run"
    /\ PAGETABLE = "idmap"
    /\ active
    /\ nmaps = MaxMaps
    /\ ptCall.ret = "Ok"

\* C23: the table is activated once; a call to IdMap::activate on a table
\* that is already active panics instead of activating it again.
C23_SecondActivatePanics == reactivated => ptPanicked # None

\* C24: activate_secondary panics, without installing the table, on a table
\* that is not active; on an active table it sets the calling core's
\* translation base and nothing else: no descriptor, no frame of the page
\* allocator, no other core's translation base changes.
C24_ActivateSecondary ==
    /\ [](\A m \in Mpidrs \ {0} : ttbr0[m] = "idmap" => active)
    /\ [][bootCall'.fn = "activate_secondary" =>
             /\ pt' = pt
             /\ pool' = pool
             /\ active' = active
             /\ nmaps' = nmaps
             /\ IF active
                THEN /\ bootPanic' = None
                     /\ ttbr0' = [ttbr0 EXCEPT ![bootCall'.core] = "idmap"]
                ELSE /\ bootPanic' = "assertion failed: self.mapping.active()"
                     /\ ttbr0' = ttbr0]_vars

\* Core 1 has installed the published table; core 2 has not.
C24_Witness ==
    /\ bootCall = [fn |-> "activate_secondary", core |-> 1]
    /\ PAGETABLE = "idmap"
    /\ ttbr0[1] = "idmap"
    /\ ttbr0[2] = "initial"
    /\ bootPanic = None
    /\ \E p \in PageBases : pt[p] # Unmapped

\* The GIC node passes every check of make_gic.
FdtGicValid(f) ==
    /\ f.node
    /\ f.regs >= 2
    /\ f.gicd = GicdSize
    /\ f.gicr >= GicrSgiSize * cpu_count

\* C25: a GIC driver is constructed only from a device tree that has a GIC
\* node with both regions, a distributor region of exactly the size of the
\* distributor structure and a redistributor region with room for every
\* CPU; with any other device tree init_gic panics, constructs nothing and
\* accesses no GIC register.
C25_GicFromValidatedRegions ==
    /\ [](gicNew >= 1 => FdtGicValid(fdtGic))
    /\ [](gicTouched => gicNew >= 1)
    /\ [][(bootCall'.fn = "init_gic" /\ GIC = "incomplete" /\ ~FdtGicValid(fdtGic'))
             => /\ bootPanic' # None
                /\ gicNew' = gicNew
                /\ gicTouched' = gicTouched
                /\ GIC' = GIC]_vars

\* init_gic met a redistributor region that is one frame short and
\* panicked before any GIC register was accessed.
C25_Witness ==
    /\ bootCall.fn = "init_gic"
    /\ fdtGic.node
    /\ fdtGic.regs = 2
    /\ fdtGic.gicd = GicdSize
    /\ fdtGic.gicr = GicrSgiSize * cpu_count - 1
    /\ bootPanic # None
    /\ gicNew = 0
    /\ ~gicTouched

\* C26: however often init_gic is called, one driver is constructed and the
\* global setup runs once; secondary_init_gic constructs nothing, runs no
\* global setup and initialises only the calling core.
C26_GlobalSetupOnce ==
    /\ [](gicNew <= 1 /\ gicSetups <= 1)
    /\ [][bootCall'.fn = "secondary_init_gic" =>
             /\ gicNew' = gicNew
             /\ gicSetups' = gicSetups
             /\ GIC' = GIC
             /\ \A k \in Mpidrs :
                   k # mpidr_to_cpu_index(bootCall'.core).v =>
                       gicCpuInit'[k] = gicCpuInit[k]]_vars

\* init_gic was called twice, the setup ran once, and secondary core 1
\* has initialised its part.
C26_Witness ==
    /\ ninits = 2
    /\ GIC = "complete"
    /\ gicNew = 1
    /\ gicSetups = 1
    /\ gicCpuInit[1]
    /\ ~gicCpuInit[2]

\* C27: secondary_init_gic executed before init_gic has completed panics
\* and accesses no GIC register; a secondary core's part of the GIC is
\* initialised only after init_gic completed.
C27_UseBeforeInitPanics ==
    /\ [](\A m \in Mpidrs \ {0} : gicCpuInit[m] => GIC = "complete")
    /\ [][(bootCall'.fn = "secondary_init_gic" /\ GIC # "complete") =>
             /\ bootPanic' = "called Option::unwrap() on a None value"
             /\ gicTouched' = gicTouched
             /\ gicCpuInit' = gicCpuInit]_vars

\* A secondary core called secondary_init_gic while the initialiser of
\* init_gic was still running, and panicked.
C27_Witness ==
    /\ bootCall.fn = "secondary_init_gic"
    /\ GIC = "running"
    /\ bootPanic = "called Option::unwrap() on a None value"
    /\ ~gicTouched

C29_IndexDistinctInRange ==
    /\ [](\A a \in Affinities :
            lastIndex[a].some =>
                /\ lastIndex[a].v < cpu_count
                /\ fdtCpus[lastIndex[a].v + 1] = a
                /\ \A b \in Affinities \ {a} :
                      lastIndex[b].some => lastIndex[b].v # lastIndex[a].v)
    /\ [][(/\ bootCall'.fn = "current_cpu_index"
           /\ nindex' = nindex + 1
           /\ \A i \in 1..Len(fdtCpus) : fdtCpus[i] # bootCall'.core)
          => (bootPanic' # None /\ lastIndex' = lastIndex)]_vars

\* Two cores have got different indexes from a device tree that lists
\* them in reverse order, and a third core, which the tree does not list,
\* has panicked.
C29_Witness ==
    /\ fdtCpus = <<1, 0>>
    /\ lastIndex[0] = Some(1)
    /\ lastIndex[1] = Some(0)
    /\ bootCall = [fn |-> "current_cpu_index", core |-> 2]
    /\ bootPanic # None

(***************************************************************************)
(* Claims about the exception vectors (SpecDispatch).                      *)
(***************************************************************************)
\* C30: entering any exception vector other than irq_current panics with
\* the vector's "Unexpected ..." message and changes nothing else: no
\* handler is looked up or invoked, nothing is acknowledged, and the
\* interrupted thread and interrupt handler do not move; after the panic
\* nothing runs any more, so the vector never returns; and every step of
\* interrupt dispatch is made with no such vector entered, starting from
\* an IRQ taken with interrupts unmasked and one pending.
C30_OtherExceptionsFatal ==
    /\ [](entered # NoVector =>
            /\ entered.vector \in FatalVectors
            /\ panicked = "Unexpected " \o entered.vector)
    /\ [][entered' # entered =>
            /\ panicked' # None
            /\ UNCHANGED <<SHARED_IRQ_HANDLERS, PRIVATE_IRQ_HANDLERS,
                           sharedLock, privateBorrow, daifI, thread, irq,
                           pending, acks, eois, ALARM_FIRED>>]_vars
    /\ [][panicked # None => UNCHANGED vars]_vars
    /\ [][irq' # irq => entered' = NoVector]_vars
    /\ [][\A c \in Cores :
            (irq[c].pc = "none" /\ irq'[c].pc = "ack")
               => (panicked' = None /\ ~daifI[c] /\ pending[c] # {})]_vars

\* An SError has been taken on a core that was in the middle of a
\* registered interrupt handler.
C30_Witness ==
    /\ entered.vector = "serr_current"
    /\ irq[entered.core].pc = "handler"
    /\ panicked = "Unexpected serr_current"

(***************************************************************************)
(* Claims about the scope of private registrations (Spec).                 *)
(***************************************************************************)
\* C33: a step that changes the private table of core i is the insert of a
\* set_private_irq_handler or the remove of a remove_private_irq_handler
\* that the thread of core i itself is executing; it changes only the entry
\* of that call's interrupt id, and leaves the shared table and every other
\* core's private table as they are.  A handler invoked by handle_irq on
\* core j comes from core j's own private table or from the shared table,
\* never from another core's private table.
C33_PrivateScopedToCore ==
    /\ [][\A i \in Cores :
            PRIVATE_IRQ_HANDLERS'[i] # PRIVATE_IRQ_HANDLERS[i] =>
               /\ thread[i].op \in {"set_private_irq_handler",
                                    "remove_private_irq_handler"}
               /\ thread[i].pc \in {"insert", "remove"}
               /\ irq[i].pc = "none"
               /\ SHARED_IRQ_HANDLERS' = SHARED_IRQ_HANDLERS
               /\ \A j \in Cores \ {i} :
                     PRIVATE_IRQ_HANDLERS'[j] = PRIVATE_IRQ_HANDLERS[j]
               /\ \A n \in IntIds \ {thread[i].intid} :
                     PRIVATE_IRQ_HANDLERS'[i][n] = PRIVATE_IRQ_HANDLERS[i][n]]_vars
    /\ [][\A j \in Cores :
            Len(irq'[j].invoked) > Len(irq[j].invoked) =>
               LET h == irq'[j].invoked[Len(irq'[j].invoked)] IN
               \/ /\ irq'[j].scope = "private"
                  /\ h = PRIVATE_IRQ_HANDLERS[j][irq'[j].intid]
                  /\ h # None
               \/ /\ irq'[j].scope = "shared"
                  /\ PRIVATE_IRQ_HANDLERS[j][irq'[j].intid] = None
                  /\ h = SHARED_IRQ_HANDLERS[irq'[j].intid]]_vars

\* Core 1 has registered a private handler for an interrupt id; the same
\* interrupt has been taken on core 0, which has no handler for it, and
\* core 0 has found none: core 1's handler was not invoked.
C33_Witness ==
    /\ PRIVATE_IRQ_HANDLERS[1][5] # None
    /\ PRIVATE_IRQ_HANDLERS[0][5] = None
    /\ SHARED_IRQ_HANDLERS[5] = None
    /\ irq[0].intid = 5
    /\ irq[0].invoked = <<>>
    /\ panicked = "Unexpected IRQ with no handler"

C37_StartOnlyWhenOff ==
    /\ [](\A c \in Mpidrs :
            cpu[c].pc \in {"store_entry", "store_arg", "dsb", "cpu_on"} =>
               /\ c = 0
               /\ cpu[c].target \in Mpidrs
               /\ power[cpu[c].target] = "off")
    /\ [][nstarts' = nstarts + 1 =>
            IF cpu'[0].pc = "store_entry"
            THEN power[cpu'[0].target] = "off"
            ELSE UNCHANGED <<SECONDARY_STACKS, nstacks, slots, storeBuf, cpu,
                             power, request>>]_vars
    /\ [][\A c \in Mpidrs :
            (cpu[c].pc = "cpu_on" /\ cpu'[c].pc = "ret") =>
               cpu'[c].status \notin {"AlreadyOn", "OnPending"}]_vars
    /\ [][\A m \in Mpidrs :
            (request'[m] # request[m] /\ request'[m] # NoRequest) =>
               power[m] = "off"]_vars

\* Two start_cpu commands have been given and core 1 is still coming up on
\* the only stack there is; the shell is back at its prompt.
C37_Witness ==
    /\ nstarts = 2
    /\ nstacks = 1
    /\ power[1] = "on_pending"
    /\ power[2] = "off"
    /\ cpu[0].pc = "run"
    /\ request[1] # NoRequest

(***************************************************************************)
(* Claims about nesting of the dispatch (SpecNest).                        *)
(***************************************************************************)
\* C36: from the entry of the IRQ vector to the return of handle_irq the
\* core has IRQs masked; at most one handler invocation is in progress on a
\* core; the vector is entered only by a core that is not in a dispatch;
\* and while a handler runs no further interrupt is acknowledged on its
\* core, whatever is pending there.
C36_NoNestedDispatch ==
    /\ [](\A c \in Cores :
            /\ irq[c].pc \in {"ack", "handler", "handled"} => daifI[c]
            /\ Len(irq[c].invoked) <= 1)
    /\ [][\A c \in Cores :
            (irq'[c].pc = "ack" /\ irq[c].pc # "ack") =>
               irq[c].pc = "none" /\ irq[c].invoked = <<>>]_vars
    /\ [][\A c \in Cores :
            irq[c].pc \in {"handler", "handled"} =>
               /\ pending[c] \subseteq pending'[c]
               /\ Len(irq'[c].invoked) <= Len(irq[c].invoked)]_vars

\* A handler runs on core 0 while another interrupt is pending on the core.
C36_Witness ==
    /\ irq[0].pc = "handler"
    /\ Len(irq[0].invoked) = 1
    /\ pending[0] # {}
    /\ daifI[0]

(***************************************************************************)
(* Claims about the completion of the RTC interrupt (SpecNest).            *)
(***************************************************************************)
\* C39: with alarm::irq_handle registered for the RTC interrupt, ALARM_FIRED
\* is true exactly when the handler has run for an acknowledged RTC
\* interrupt that has not been ended; the flag is set only by a run of the
\* handler; irq_finish writes an end-of-interrupt, for the RTC id and once,
\* only when it finds the flag set, and it leaves the flag clear, so that a
\* second irq_finish without a handler run in between writes nothing.
C39_CompletionPaired ==
    /\ [](SHARED_IRQ_HANDLERS[RTC_IRQ] = AlarmHandler =>
            (ALARM_FIRED <=>
               /\ eois[RTC_IRQ] < acks[RTC_IRQ]
               /\ \A c \in Cores :
                     (irq[c].pc # "none" /\ irq[c].intid = RTC_IRQ) =>
                        irq[c].pc = "handled"))
    /\ [][(~ALARM_FIRED /\ ALARM_FIRED') =>
            \E c \in Cores :
               /\ irq[c].pc = "handler"
               /\ irq'[c].pc = "handled"
               /\ irq[c].invoked = <<AlarmHandler>>]_vars
    /\ [][(eois' # eois /\ irq' = irq) =>
            /\ ALARM_FIRED
            /\ eois' = [eois EXCEPT ![RTC_IRQ] = @ + 1]]_vars
    /\ [][(irq' = irq /\ thread' = thread /\ ~ALARM_FIRED /\ ~ALARM_FIRED') =>
            eois' = eois]_vars
    /\ [][(ALARM_FIRED /\ ~ALARM_FIRED') =>
            /\ irq' = irq
            /\ eois' = [eois EXCEPT ![RTC_IRQ] = @ + 1]]_vars

\* The RTC interrupt has been dispatched twice and ended once by irq_finish:
\* the second one is waiting for its irq_finish.
C39_Witness ==
    /\ SHARED_IRQ_HANDLERS[RTC_IRQ] = AlarmHandler
    /\ acks[RTC_IRQ] = 2
    /\ eois[RTC_IRQ] = 1
    /\ ALARM_FIRED
    /\ \A c \in Cores : irq[c].pc = "none"

(***************************************************************************)
(* Claims about interrupts on a secondary core (SpecSecondary).            *)
(***************************************************************************)
\* C32: on the secondary core, from irq_enable to cpu_off, the dispatch of
\* an SGI never ends in the panic for an interrupt without a handler.
C32_SecondaryAlwaysFindsHandler ==
    ~(/\ irq[1].pc = "panic"
      /\ irq[1].intid = SGI_5
      /\ panicked = unexpected_irq(SGI_5))

(***************************************************************************)
(* Claims about the core index of the GIC setup (SpecGicIndex).            *)
(***************************************************************************)
\* C35: when the boot core has completed init_gic, the per-core part of the
\* setup has been made for the index current_cpu_index() gives the boot
\* core, the position of its affinity in the device tree's CPU list, and
\* for no other index.
C35_SetupIndexIsBootCoreIndex ==
    (bootCall = [fn |-> "init_gic_done", core |-> 0]) =>
        /\ mpidr_to_cpu_index(0).some
        /\ \A k \in Mpidrs : gicCpuInit[k] <=> (k = mpidr_to_cpu_index(0).v)

(***************************************************************************)
(* Claims about the logger's lock (SpecLogger).                            *)
(***************************************************************************)
\* C31: the logger's spin mutex is held by the thread of a core only while
\* the core has IRQs masked, and a handler that logs is never invoked on a
\* core whose interrupted thread holds the mutex.
C31_NoSelfDeadlockOnLogger ==
    \A c \in Cores :
        /\ (LOGGER = c /\ irq[c].pc = "none") => daifI[c]
        /\ ~(/\ irq[c].pc = "handler"
             /\ handler_logs(irq[c].invoked[Len(irq[c].invoked)])
             /\ LOGGER = c)

\* The state the claim rules out, for use in diagnosis: a logging handler
\* waits on core 1 for the mutex its own thread holds.
LoggerSelfDeadlock ==
    /\ irq[1].pc = "handler"
    /\ irq[1].invoked = <<SgiHandler>>
    /\ LOGGER = 1
    /\ thread[1].pc = "log"

(***************************************************************************)
(* Claims about Console::read (SpecConsole).                               *)
(***************************************************************************)
\* C38: whenever a Console::read is in progress and the UART has a byte
\* waiting, the read eventually returns.
C38_ReadMakesProgress ==
    (thread[0].op = "Console::read" /\ uart.rx > 0) ~> (thread[0].op # "Console::read")

\* The state the claim rules out, for use in diagnosis: the reader sleeps
\* in wfi, a byte is waiting, and its interrupt has been handled and ended.
ReaderAsleepWithData ==
    /\ thread[0].pc = "sleep"
    /\ uart.rx = 1
    /\ pending[0] = {}
    /\ irq[0].pc = "none"
    /\ eois[CONSOLE_IRQ] = 1

(***************************************************************************)
(* Claims about the PCI ranges (SpecPci).                                  *)
(***************************************************************************)
\* C40: every memory range the PCI root keeps ends at or below the size of
\* the page table; of the node's memory ranges exactly those that start
\* below the limit are kept, each with its start unchanged and its size
\* not enlarged; and every map_range call map_ranges makes is for a region
\* that ends at or below the limit, page alignment included, so that the
\* page table never answers with an address-range error.
C40_PciRangesWithinPagetable ==
    /\ [](pciRoot.pc = "found" =>
            /\ \A i \in 1..Len(pciRoot.ranges) :
                  is_memory(pciRoot.ranges[i]) =>
                     pciRoot.ranges[i].cpu_physical + pciRoot.ranges[i].size
                        <= IdMap_size
            /\ Len(SelectSeq(pciRoot.ranges, is_memory)) =
                  Len(SelectSeq(pciRoot.node,
                                LAMBDA r : is_memory(r) /\ r.cpu_physical < IdMap_size))
            /\ \A i \in 1..Len(pciRoot.ranges) :
                  \E j \in 1..Len(pciRoot.node) :
                     /\ pciRoot.node[j].cpu_physical = pciRoot.ranges[i].cpu_physical
                     /\ pciRoot.node[j].flags = pciRoot.ranges[i].flags
                     /\ pciRoot.ranges[i].size <= pciRoot.node[j].size)
    /\ [][(pciRoot'.mapped # pciRoot.mapped /\ nmaps' # nmaps) =>
            /\ ptCall'.end <= IdMap_size
            /\ MemoryRegion_new(ptCall'.start, ptCall'.end).end <= IdMap_size
            /\ ptCall'.ret # "AddressRange"]_vars

\* A memory range of the node that crosses the end of the page table has
\* been trimmed and mapped: the call ended exactly at the limit.
C40_Witness ==
    /\ pciRoot.pc = "found"
    /\ pciRoot.mapped = 1
    /\ Len(pciRoot.node) >= 1
    /\ is_memory(pciRoot.node[1])
    /\ pciRoot.node[1].cpu_physical < IdMap_size
    /\ pciRoot.node[1].cpu_physical + pciRoot.node[1].size > IdMap_size
    /\ ptCall.end = IdMap_size
    /\ ptCall.ret = "Ok"

====
